---- MODULE Spec2Model ----
(***************************************************************************)
(* Model of the vectorization engine of S03_VECT.py: the token bucket, the *)
(* circuit breaker, the content-hash embedding cache, the dead letter      *)
(* queue, generate_embedding, drain_dlq, vectorize_batch, the two sink     *)
(* writers and the instant / bulk run loops.                               *)
(*                                                                         *)
(* Time is an integer clock `now` whose unit is 100 ms.  Texts are finite  *)
(* sequences over the characters "a", "b" and " " (the whitespace).        *)
(* Values of the configuration that only set the size of a run (retry     *)
(* attempts, breaker threshold, max_chars, drain limit) are scaled down;   *)
(* each is named below with the line of the source that sets it.           *)
(***************************************************************************)
EXTENDS Integers, Sequences, FiniteSets, TLC

VARIABLES
    now,          \* time.time(), in units of 100 ms
    minInterval,  \* config rate_limit.min_interval_ms, in units of 100 ms
    batchSize,    \* the batch_size the run loops pass to vectorize_batch
    endpoint,     \* behaviour of the inference endpoint, per prompt
    faults,       \* the stores whose operations may raise in this run
    queue,        \* PROC.db chat_data: rowid -> [text, processed]
    cache,        \* MVM.db embed_cache: set of rows
    dlq,          \* MVM.db embed_dlq: set of rows
    mvm,          \* MVM.db vectors: set of rows
    qdrant,       \* Qdrant collection: set of points
    eng,          \* per engine (process): the VectorizerEngine and its control state
    obs,          \* per engine: observations of the run (history, not program state)
    runs,         \* number of processes started so far
    collection,   \* mcp_client: the points of QDRANT_COLLECTION, by point id
    stored        \* mcp_client: the calls of qdrant_store so far (history)

vars == <<now, minInterval, batchSize, endpoint, faults, queue, cache, dlq, mvm, qdrant, eng, obs, runs,
          collection, stored>>

-----------------------------------------------------------------------------
(* Bounds of the model *)

\* number of work items in chat_data
NumItems == 3
\* number of processes (runs of main) per behaviour
MaxRuns == 2
\* number of direct generate_embedding calls of the embed harness
MaxCalls == 4
\* the longest text handed to generate_embedding in SpecNorm
MaxTextLen == 4
\* the calls of qdrant_store in a behaviour of SpecStore, and the largest turn
MaxStores == 2
MaxTurn == 10
\* the calls of generate_embedding in a behaviour of SpecBreaker
MaxBreakerCalls == 14
\* the calls and the clock of a behaviour of SpecBucket
MaxAcquires == 4
MaxClock == 12

(* Program constants (time in units of 100 ms) *)

\* self.bucket_size = 2.0
BucketSize == 2
\* asyncio.sleep(min(wait_time, 0.5))
SleepCap == 5
\* retry_policy.attempts (default 3, scaled)
Attempts == 2
\* retry_policy.base_ms = 1000
BaseMs == 10
\* retry_policy.max_ms = 5000
MaxMs == 50
\* circuit_breaker.failure_threshold (default 10, scaled)
CbThreshold == 3
\* circuit_breaker.pause_duration_s = 30
CbPauseS == 300
\* min(circuit_trips + 1, 5)
MaxPauseMultiplier == 5
\* _norm_text(s, max_chars=8000), scaled
MaxChars == 3
\* drain_dlq(max_items=25), scaled
DrainLimit == 2
\* WHERE attempts < 10
RetryCap == 10
\* auto mode: instant if queue_size < 100, scaled
AutoThreshold == 2
\* run_bulk_mode(max_batches=10), scaled
MaxBatches == 2
\* await asyncio.sleep(2) between bulk batches
InterBatchDelay == 20

Engines == {1}
Items == 1..NumItems
Chars == {"a", "b", " "}

Min(a, b) == IF a < b THEN a ELSE b
Max(a, b) == IF a > b THEN a ELSE b

RECURSIVE Pow2(_)
Pow2(n) == IF n = 0 THEN 1 ELSE 2 * Pow2(n - 1)

-----------------------------------------------------------------------------
(* _norm_text and _hash_key *)

\* " ".join(s.strip().split()): runs of whitespace become one blank, none at the ends
RECURSIVE Squeeze(_, _)
Squeeze(s, afterBlank) ==
    IF s = <<>> THEN <<>>
    ELSE IF Head(s) = " "
         THEN IF afterBlank THEN Squeeze(Tail(s), TRUE)
              ELSE <<" ">> \o Squeeze(Tail(s), TRUE)
         ELSE <<Head(s)>> \o Squeeze(Tail(s), FALSE)

DropTrailingBlank(s) ==
    IF s # <<>> /\ s[Len(s)] = " " THEN SubSeq(s, 1, Len(s) - 1) ELSE s

Collapse(s) == DropTrailingBlank(Squeeze(s, TRUE))

NormText(s, max_chars) ==
    IF s = <<>> THEN <<>>
    ELSE SubSeq(Collapse(s), 1, Min(Len(Collapse(s)), max_chars))

\* sha256(...).hexdigest(): an injective code of the character sequence
CharCode(c) == CASE c = " " -> 1 [] c = "a" -> 2 [] c = "b" -> 3

RECURSIVE Sha256(_)
Sha256(s) == IF s = <<>> THEN 0 ELSE CharCode(Head(s)) + 4 * Sha256(Tail(s))

HashKey(s) == Sha256(NormText(s, MaxChars))

-----------------------------------------------------------------------------
(* Values *)

\* the result of generate_embedding: None, or a list (empty for an empty text)
NoneResult == [kind |-> "none", vec |-> <<>>]
ListResult(v) == [kind |-> "list", vec |-> v]

Vectors == {<<1>>, <<2>>}

\* what the POST to /api/embeddings can come back with
ErrorReply == [status |-> "error", embedding |-> <<>>]
OkReply(v) == [status |-> "ok", embedding |-> v]
\* the POST raises (connection refused, timeout)
TransportError == [status |-> "unreachable", embedding |-> <<>>]
\* status 200 with a body r.json() cannot parse
GarbledReply == [status |-> "garbled", embedding |-> <<>>]
\* status 200 with a JSON body that has no "embedding"
MissingReply == [status |-> "missing", embedding |-> <<>>]

\* "ok": always a vector; "down": always a transport/status error;
\* "flaky": an error status, an empty embedding or a vector;
\* "any": every outcome of the call, with one vector
Replies(kind) ==
    CASE kind = "ok" -> {OkReply(<<1>>)}
      [] kind = "down" -> {ErrorReply}
      [] kind = "flaky" -> {ErrorReply, OkReply(<<>>)} \cup {OkReply(v) : v \in Vectors}
      [] kind = "any" -> {TransportError, ErrorReply, GarbledReply, MissingReply,
                          OkReply(<<>>), OkReply(<<1>>)}


StatNames == {"cache_hits", "circuit_trips", "empty_text", "embeddings_generated",
              "embedding_errors", "mvm_writes", "qdrant_writes"}

ZeroStats == [n \in StatNames |-> 0]

\* VectorizerEngine.__init__ at time t
NewEngine(t, target, m) ==
    [pc |-> "idle", target |-> target, arg |-> "auto", batches |-> MaxBatches,
     mode |-> "none", max_batches |-> MaxBatches,
     cache_initialized |-> FALSE,
     tokens |-> BucketSize * m, token_last |-> t,
     cb_failures |-> 0, stats |-> ZeroStats,
     ctx |-> "none", raw |-> <<>>, prompt |-> <<>>, key |-> 0, attempt |-> 0,
     result |-> NoneResult,
     rows |-> <<>>, idx |-> 0, vectors |-> <<>>, rowids_success |-> <<>>,
     failed |-> <<>>,
     drows |-> <<>>, total |-> 0, batch_num |-> 0, count |-> 0, exit |-> -1]

\* the engine after initialize returned True: the tables were ensured when the
\* target has MVM.db in it (lines 235-243)
Initialized(r) == [r EXCEPT !.cache_initialized = r.target \in {"mvm", "both"}]

Sinks == {"mvm", "qdrant"}

\* what is recorded of a process and of its current call and batch:
\*   calls       inference calls issued,      ncalls     generate_embedding calls begun
\*   firstStart  time the first call began,   callStart  time the current call began
\*   cbStart     cb_failures when the current call began
\*   tries       inference calls of the current call
\*   slept       time the current call spent in the breaker's cooldown
\*   recent      the last CbThreshold + 1 inference outcomes, each with the
\*               trip count before it and the failure counter after it
\*   lastErr     str(e) of the last failed try
\*   got         the answers of generate_embedding for the rows of the current batch
\*   dlq0, mvm0, qdrant0   the stores when the current batch was read
\*   failed      the sinks whose write raised in the current batch
\*   depth       the queue size main_async measured (-1 before it did)
\*   raised      generate_embedding calls that ended with an exception
\*   boot        what the process found when it started: the --target, whether
\*               PROC.db was there, the warm-up was answered, Qdrant came up,
\*               MVM.db was there and the tables could be ensured
\* and, kept from one process to the next:
\*   seen        the (normalized text, vector) pairs generate_embedding has returned
\*   handed      per work item, the sinks whose writer was called with its record
\*   lost        per work item, the sinks whose write of its record raised
NoBoot == [target |-> "none", proc |-> TRUE, warm |-> TRUE, qd |-> TRUE, db |-> TRUE,
           tb |-> TRUE]

NewObs ==
    [calls |-> 0, ncalls |-> 0, firstStart |-> 0, callStart |-> 0, cbStart |-> 0,
     tries |-> 0, slept |-> 0, recent |-> <<>>, lastErr |-> "",
     got |-> <<>>, dlq0 |-> {}, mvm0 |-> {}, qdrant0 |-> {}, failed |-> {},
     depth |-> -1, raised |-> 0, boot |-> NoBoot,
     seen |-> {},
     handed |-> [i \in Items |-> {}], lost |-> [i \in Items |-> {}]]

LastN(s, n) == IF Len(s) <= n THEN s ELSE SubSeq(s, Len(s) - n + 1, Len(s))

Bump(stats, name, n) == [stats EXCEPT ![name] = @ + n]

-----------------------------------------------------------------------------
(* Token bucket: tokens are kept multiplied by minInterval, so that one token *)
(* is minInterval and the refill of d time units is d                        *)

\* a bucket that refills at twice the configured rate
RefillTwice(tokens, elapsed, m) == Min(BucketSize * m, tokens + 2 * elapsed)

\* a refill without the cap at bucket_size
RefillUncapped(tokens, elapsed, m) == tokens + elapsed

Refill(tokens, elapsed, m) == Min(BucketSize * m, tokens + elapsed)

\* a sleep of the cap, whatever is missing
WaitTimeFixed(tokens, m) == SleepCap

WaitTime(tokens, m) == Min(m - tokens, SleepCap)

\* the time a token was taken, kept by the runs that record it
TokenTaken(o, t) ==
    IF "taken" \in DOMAIN o THEN [o EXCEPT !.taken = Append(@, t)] ELSE o

-----------------------------------------------------------------------------
(* Circuit breaker *)

\* a gate that opens one call late
CbOpenLate(failures) == failures >= CbThreshold + Attempts

CbOpen(failures) == failures >= CbThreshold

\* a pause that forgets the + 1: the first trip does not pause
PauseTimeByTrips(trips) == CbPauseS * Min(trips, MaxPauseMultiplier)

\* a pause that grows with every trip, without the ceiling
PauseTimeUncapped(trips) == CbPauseS * (trips + 1)

PauseTime(trips) == CbPauseS * Min(trips + 1, MaxPauseMultiplier)

\* a success that leaves the failure counter as it is
AfterSuccessKept(failures) == failures

\* self.cb_failures after a successful inference call
AfterSuccess(failures) == 0

\* a failed try counted twice
AfterFailureTwice(failures) == failures + 2

\* self.cb_failures after a failed try
AfterFailure(failures) == failures + 1

BackoffDelay(attempt) == Min(BaseMs * Pow2(attempt), MaxMs)

\* random.uniform(0, delay_ms * 0.1), in whole units
Jitter(delay) == 0..((delay - 1) \div 10)

-----------------------------------------------------------------------------
(* embed_cache and embed_dlq *)

\* a lookup that never finds the key
CacheLookupMiss(c, k) == {}

\* SELECT vector FROM embed_cache WHERE key=?
CacheLookup(c, k) == {x \in c : x.key = k}

\* a cache write that is never committed
CacheInsertDropped(c, k, vec) == c

\* config expected_embed_model
Model == "nomic-embed-text"

\* a cache written with INSERT OR REPLACE
CacheInsertOrReplace(c, k, vec) ==
    {x \in c : x.key # k} \cup {[key |-> k, vector |-> vec, model |-> Model,
                                 dims |-> Len(vec)]}

\* INSERT OR IGNORE INTO embed_cache(key, vector, model, dims)
CacheInsert(c, k, vec) ==
    IF CacheLookup(c, k) # {} THEN c
    ELSE c \cup {[key |-> k, vector |-> vec, model |-> Model, dims |-> Len(vec)]}

DlqLookup(d, k) == {x \in d : x.key = k}

\* an insert without the ON CONFLICT clause on a table without the primary key
DlqInsertPlain(d, k, text, err, t) ==
    d \cup {[key |-> k, text |-> text, last_error |-> err, attempts |-> 1,
              last_attempt_at |-> t]}

\* an upsert that writes back the attempts it read before the other writer's
\* commit: the row is replaced by one with attempts = 1
DlqUpsertOverwrite(d, k, text, err, t) ==
    {x \in d : x.key # k} \cup {[key |-> k, text |-> text, last_error |-> err,
                                 attempts |-> 1, last_attempt_at |-> t]}

\* INSERT INTO embed_dlq ... ON CONFLICT(key) DO UPDATE SET ...
DlqUpsert(d, k, text, err, t) ==
    IF DlqLookup(d, k) = {}
    THEN d \cup {[key |-> k, text |-> text, last_error |-> err, attempts |-> 1,
                  last_attempt_at |-> t]}
    ELSE {IF x.key = k
          THEN [x EXCEPT !.last_error = err, !.attempts = @ + 1, !.last_attempt_at = t]
          ELSE x : x \in d}

\* a delete that is never committed
DlqDeleteDropped(d, k) == d

\* DELETE FROM embed_dlq WHERE key=?
DlqDelete(d, k) == {x \in d : x.key # k}

\* str(e) of the exception of a failed try
ErrorText(reply) ==
    CASE reply.status = "error" -> "http_error"
      [] reply.status = "unreachable" -> "connect_error"
      [] reply.status = "garbled" -> "json_decode_error"
      [] OTHER -> "invalid_embedding_payload"

\* a check of the answer that takes any list for a vector
InvalidPayloadUnlessList(reply) == reply.status # "ok"

\* not isinstance(emb, list) or not emb
InvalidPayload(reply) == reply.status # "ok" \/ reply.embedding = <<>>

MayFail(what) == IF what \in faults THEN {FALSE, TRUE} ELSE {FALSE}

\* the time the POST takes, in whole units: none, or one when the network is slow
Latencies == IF "slow" \in faults THEN {0, 1} ELSE {0}

-----------------------------------------------------------------------------
(* The texts and prompts of the model *)

RawTexts ==
    {<<>>, <<" ">>, <<"a">>, <<"b">>, <<" ", "a", " ">>, <<"a", " ", " ", "b">>,
     <<"a", "b">>, <<"a", "b", " ", "b">>}

Prompts == {NormText(t, MaxChars) : t \in RawTexts} \ {<<>>}

UnchangedStores == UNCHANGED <<cache, dlq, mvm, qdrant, queue>>
\* the vectorizer never calls mcp_client
UnchangedMcp == UNCHANGED <<collection, stored>>

UnchangedEnv == UNCHANGED <<minInterval, batchSize, endpoint, faults, runs>> /\ UnchangedMcp

-----------------------------------------------------------------------------
(* generate_embedding *)

\* the call of generate_embedding(raw) by ctx, lines 408-409: _ensure_cache_tables
\* returns at once when the tables were ensured before; else it opens MVM.db and
\* creates them, and what it raises leaves generate_embedding (tablesFail)
BeginEmbed(r, raw, ctx, tablesFail) ==
    IF ~r.cache_initialized /\ tablesFail
    THEN [r EXCEPT !.pc = "raised", !.ctx = ctx, !.raw = raw, !.attempt = 0,
                   !.result = NoneResult]
    ELSE [r EXCEPT !.pc = "token", !.ctx = ctx, !.raw = raw, !.attempt = 0,
                   !.result = NoneResult, !.cache_initialized = TRUE]

\* the call of engine record r has returned a vector
Returned(r) == r.pc = "ret" /\ r.result.kind = "list" /\ r.result.vec # <<>>

SeenAfter(o, r) ==
    IF Returned(r) THEN [o EXCEPT !.seen = @ \cup {<<r.prompt, r.result.vec>>}] ELSE o

BeginObs(o, r) ==
    [o EXCEPT !.ncalls = @ + 1,
              !.firstStart = IF o.ncalls = 0 THEN now ELSE @,
              !.callStart = now, !.cbStart = r.cb_failures, !.tries = 0, !.slept = 0]

\* a call that passes the breaker gate before it looks the key up: an open
\* breaker is reset and the trip counted, whatever the cache holds
AfterTokenGateFirst(r, readFails) ==
    LET text == NormText(r.raw, MaxChars)
        k == HashKey(text)
        rows == CacheLookup(cache, k)
        g == IF CbOpen(r.cb_failures)
             THEN [r EXCEPT !.cb_failures = 0, !.stats = Bump(@, "circuit_trips", 1)]
             ELSE r
    IN  IF text = <<>>
        THEN [r EXCEPT !.prompt = text, !.key = k,
                       !.stats = Bump(@, "empty_text", 1),
                       !.result = ListResult(<<>>), !.pc = "ret"]
        ELSE IF ~readFails /\ rows # {}
        THEN [g EXCEPT !.prompt = text, !.key = k,
                       !.stats = Bump(@, "cache_hits", 1),
                       !.result = ListResult((CHOOSE x \in rows : TRUE).vector),
                       !.pc = "ret"]
        ELSE [g EXCEPT !.prompt = text, !.key = k, !.pc = "try"]

\* lines 415-433, after a token was taken: normalise, then look the key up
AfterToken(r, readFails) ==
    LET text == NormText(r.raw, MaxChars)
        k == HashKey(text)
        rows == CacheLookup(cache, k)
    IN  IF text = <<>>
        THEN [r EXCEPT !.prompt = text, !.key = k,
                       !.stats = Bump(@, "empty_text", 1),
                       !.result = ListResult(<<>>), !.pc = "ret"]
        ELSE IF ~readFails /\ rows # {}
        THEN [r EXCEPT !.prompt = text, !.key = k,
                       !.stats = Bump(@, "cache_hits", 1),
                       !.result = ListResult((CHOOSE x \in rows : TRUE).vector),
                       !.pc = "ret"]
        ELSE [r EXCEPT !.prompt = text, !.key = k, !.pc = "gate"]

\* one iteration of `while not await self._take_token()`, and on success the
\* synchronous code up to the cache check
TakeToken(e) ==
    /\ eng[e].pc = "token"
    /\ LET r == eng[e]
           filled == Refill(r.tokens, now - r.token_last, minInterval)
       IN  IF filled >= minInterval
           THEN /\ now' = now
                /\ \E rf \in MayFail("cache_read") :
                     eng' = [eng EXCEPT ![e] =
                               AfterToken([r EXCEPT !.tokens = filled - minInterval,
                                                    !.token_last = now], rf)]
                /\ obs' = [obs EXCEPT ![e] = TokenTaken(SeenAfter(obs[e], eng'[e]), now)]
           ELSE /\ now' = now + WaitTime(filled, minInterval)
                /\ eng' = [eng EXCEPT ![e] = [r EXCEPT !.tokens = filled,
                                                       !.token_last = now]]
                /\ UNCHANGED obs
    /\ UnchangedStores
    /\ UnchangedEnv

\* _cool_if_cb_open
Gate(e) ==
    /\ eng[e].pc = "gate"
    /\ LET r == eng[e]
           pause == PauseTime(r.stats["circuit_trips"])
       IN  IF CbOpen(r.cb_failures)
           THEN /\ now' = now + pause
                /\ eng' = [eng EXCEPT ![e] =
                             [r EXCEPT !.cb_failures = 0,
                                       !.stats = Bump(@, "circuit_trips", 1),
                                       !.pc = "try"]]
                /\ obs' = [obs EXCEPT ![e].slept = pause]
           ELSE /\ now' = now
                /\ eng' = [eng EXCEPT ![e].pc = "try"]
                /\ UNCHANGED obs
    /\ UnchangedStores
    /\ UnchangedEnv

\* one try of the retry loop: the POST, and what follows its answer
Infer(e) ==
    /\ eng[e].pc = "try"
    /\ \E reply \in Replies(endpoint[eng[e].prompt]), lat \in Latencies,
          wf \in MayFail("cache_write"), df \in MayFail("dlq") :
         LET r == eng[e] IN
         /\ now' = now + lat
         /\ IF ~InvalidPayload(reply)
            THEN /\ cache' = IF wf THEN cache
                             ELSE CacheInsert(cache, r.key, reply.embedding)
                 /\ dlq' = dlq
                 /\ eng' = [eng EXCEPT ![e] =
                              [r EXCEPT !.cb_failures = AfterSuccess(@),
                                        !.stats = Bump(@, "embeddings_generated", 1),
                                        !.result = ListResult(reply.embedding),
                                        !.pc = "ret"]]
            ELSE /\ cache' = cache
                 /\ IF r.attempt < Attempts - 1
                    THEN /\ dlq' = dlq
                         /\ eng' = [eng EXCEPT ![e] =
                                      [r EXCEPT !.cb_failures = AfterFailure(@),
                                                !.stats = Bump(@, "embedding_errors", 1),
                                                !.pc = "backoff"]]
                    ELSE /\ dlq' = IF df THEN dlq
                                   ELSE DlqUpsert(dlq, r.key, r.prompt,
                                                  ErrorText(reply), now')
                         /\ eng' = [eng EXCEPT ![e] =
                                      [r EXCEPT !.cb_failures = AfterFailure(@),
                                                !.stats = Bump(@, "embedding_errors", 1),
                                                !.result = NoneResult,
                                                !.pc = "ret"]]
         /\ obs' = [obs EXCEPT ![e] =
                      SeenAfter([obs[e] EXCEPT
                                   !.calls = @ + 1, !.tries = @ + 1,
                                   !.lastErr = IF InvalidPayload(reply)
                                               THEN ErrorText(reply) ELSE @,
                                   !.recent = LastN(Append(@,
                                       [ok |-> ~InvalidPayload(reply),
                                        trips |-> r.stats["circuit_trips"],
                                        cb |-> eng'[e].cb_failures]),
                                       CbThreshold + 1)],
                                eng'[e])]
    /\ UNCHANGED <<mvm, qdrant, queue>>
    /\ UnchangedEnv

\* the sleep between two tries
Backoff(e) ==
    /\ eng[e].pc = "backoff"
    /\ \E j \in Jitter(BackoffDelay(eng[e].attempt)) :
         now' = now + BackoffDelay(eng[e].attempt) + j
    /\ eng' = [eng EXCEPT ![e].attempt = @ + 1, ![e].pc = "try"]
    /\ UNCHANGED obs
    /\ UnchangedStores
    /\ UnchangedEnv

-----------------------------------------------------------------------------
(* A caller that only calls generate_embedding, one call after the other *)

EmbedTexts == {<<" ">>, <<"a">>, <<" ", "a", " ">>, <<"b">>}

CallEmbed(e) ==
    /\ eng[e].pc = "idle"
    /\ obs[e].ncalls < MaxCalls
    /\ \E raw \in EmbedTexts, tf \in MayFail("tables") :
         eng' = [eng EXCEPT ![e] = BeginEmbed(eng[e], raw, "direct", tf)]
    /\ obs' = [obs EXCEPT ![e] = BeginObs(obs[e], eng[e])]
    /\ UNCHANGED now
    /\ UnchangedStores
    /\ UnchangedEnv

ReturnEmbed(e) ==
    /\ eng[e].pc = "ret"
    /\ eng[e].ctx = "direct"
    /\ eng' = [eng EXCEPT ![e].pc = "idle"]
    /\ UNCHANGED <<now, obs>>
    /\ UnchangedStores
    /\ UnchangedEnv

InitStores ==
    /\ cache = {}
    /\ dlq = {}
    /\ mvm = {}
    /\ qdrant = {}
    /\ collection = {}
    /\ stored = <<>>

InitEmbed ==
    /\ now = 0
    /\ minInterval \in {2, 6}
    /\ batchSize = 2
    /\ endpoint \in [Prompts -> {"flaky"}]
    /\ faults = {"slow"}
    /\ queue = [i \in Items |-> [text |-> <<"a">>, processed |-> FALSE]]
    /\ InitStores
    /\ eng = [e \in Engines |-> Initialized(NewEngine(0, "both", minInterval))]
    /\ obs = [e \in Engines |-> NewObs]
    /\ runs = 1

NextEmbed ==
    \E e \in Engines :
        \/ CallEmbed(e)
        \/ TakeToken(e)
        \/ Gate(e)
        \/ Infer(e)
        \/ Backoff(e)
        \/ ReturnEmbed(e)

SpecEmbed == InitEmbed /\ [][NextEmbed]_vars

-----------------------------------------------------------------------------
(* chat_data, vectors and the Qdrant collection *)

Unprocessed(q) == {i \in DOMAIN q : ~q[i].processed}

\* SELECT COUNT(*) FROM chat_data WHERE processed = 0
QueueSize(q) == Cardinality(Unprocessed(q))

RECURSIVE Ascending(_)
Ascending(S) ==
    IF S = {} THEN <<>>
    ELSE LET m == CHOOSE x \in S : \A y \in S : x <= y
         IN  <<m>> \o Ascending(S \ {m})

\* SELECT rowid, ... FROM chat_data WHERE processed = 0 LIMIT ?  (a table scan:
\* SQLite returns the rows in rowid order)
FetchUnprocessed(q, limit) ==
    SubSeq(Ascending(Unprocessed(q)), 1, Min(limit, QueueSize(q)))

\* an update that writes the flag of every row: processed = (rowid IN (...))
MarkProcessedExactly(q, ids) ==
    [i \in DOMAIN q |-> [q[i] EXCEPT !.processed = (i \in ids)]]

\* an update that is never committed
MarkProcessedDropped(q, ids) == q

\* UPDATE chat_data SET processed = 1 WHERE rowid IN (...)
MarkProcessed(q, ids) ==
    [i \in DOMAIN q |-> IF i \in ids THEN [q[i] EXCEPT !.processed = TRUE] ELSE q[i]]

Range(f) == {f[i] : i \in DOMAIN f}

\* `if vec is None` in vectorize_batch, `v is not None` in drain_dlq
IsNone(result) == result.kind = "none"

\* a writer that stops after the first record
MvmInsertFirst(table, recs) ==
    IF recs = <<>> THEN table
    ELSE table \cup {[bubble_id |-> Head(recs).rowid, vector |-> Head(recs).vector,
                      dims |-> Len(Head(recs).vector)]}

\* INSERT OR IGNORE INTO vectors (...): bubble_id is UNIQUE
RECURSIVE MvmInsertAll(_, _)
MvmInsertAll(table, recs) ==
    IF recs = <<>> THEN table
    ELSE LET v == Head(recs)
             t == IF \E x \in table : x.bubble_id = v.rowid THEN table
                  ELSE table \cup {[bubble_id |-> v.rowid, vector |-> v.vector,
                                    dims |-> Len(v.vector)]}
         IN  MvmInsertAll(t, Tail(recs))

\* qdrant_client.upsert(points): a point replaces the point of the same id
RECURSIVE QdrantUpsertAll(_, _)
QdrantUpsertAll(coll, recs) ==
    IF recs = <<>> THEN coll
    ELSE LET v == Head(recs)
         IN  QdrantUpsertAll({x \in coll : x.id # v.rowid}
                               \cup {[id |-> v.rowid, vector |-> v.vector]},
                             Tail(recs))

\* a selection that still takes the rows at the cap
RetryableUpToCap(d) == {x \in d : x.attempts <= RetryCap}

\* SELECT key, text FROM embed_dlq WHERE attempts < 10
Retryable(d) == {x \in d : x.attempts < RetryCap}

\* ... ORDER BY last_attempt_at ASC LIMIT ?: every order of the rows that is
\* ascending in last_attempt_at (rows of the same second come in any order)
DrainOrders(d, limit) ==
    LET S == Retryable(d)
        n == Min(limit, Cardinality(S))
    IN  {s \in [1..n -> S] :
           /\ \A i, j \in 1..n : i < j => s[i] # s[j] /\
                                         s[i].last_attempt_at <= s[j].last_attempt_at
           /\ \A x \in S \ Range(s) : \A i \in 1..n :
                                         s[i].last_attempt_at <= x.last_attempt_at}

-----------------------------------------------------------------------------
(* main_async after a successful initialize, run_instant_mode, run_bulk_mode *)

Modes == {"instant", "bulk", "auto"}

RunOver(r) == [r EXCEPT !.pc = "done", !.exit = 0]

\* a run that selects the mode by the depth alone
SelectModeByDepth(arg, size) == IF size < AutoThreshold THEN "instant" ELSE "bulk"

\* lines 865-874: args.mode, or instant below the threshold and bulk from it on
SelectMode(arg, size) ==
    IF arg = "auto"
    THEN (IF size < AutoThreshold THEN "instant" ELSE "bulk")
    ELSE arg

\* the max_batches of run_bulk_mode: args.batches when --mode bulk was given
\* (line 868), the literal 10 when the mode is selected by the depth (line 874)
BulkBound(arg, batches) == IF arg = "bulk" THEN batches ELSE MaxBatches

\* lines 855-874: measure the queue, leave if it is empty, select the mode
ChooseMode(e) ==
    /\ eng[e].pc = "boot"
    /\ LET size == QueueSize(queue) IN
         /\ eng' = [eng EXCEPT ![e] =
                      IF size = 0 THEN RunOver(eng[e])
                      ELSE [eng[e] EXCEPT !.mode = SelectMode(eng[e].arg, size),
                                          !.max_batches =
                                              BulkBound(eng[e].arg, eng[e].batches),
                                          !.pc = "drain"]]
         /\ obs' = [obs EXCEPT ![e].depth = size]
    /\ UNCHANGED now
    /\ UnchangedStores
    /\ UnchangedEnv

\* drain_dlq, lines 507-523: the snapshot of the retryable rows and the first call
DrainStart(e) ==
    /\ eng[e].pc = "drain"
    /\ \E rows \in DrainOrders(dlq, DrainLimit), tf \in MayFail("tables") :
         IF rows = <<>>
         THEN /\ eng' = [eng EXCEPT ![e].pc = "measure"]
              /\ UNCHANGED obs
         ELSE /\ eng' = [eng EXCEPT ![e] =
                           BeginEmbed([eng[e] EXCEPT !.drows = rows, !.idx = 1],
                                      rows[1].text, "drain", tf)]
              /\ obs' = [obs EXCEPT ![e] = BeginObs(obs[e], eng[e])]
    /\ UNCHANGED now
    /\ UnchangedStores
    /\ UnchangedEnv

\* drain_dlq, lines 523-535: the answer for one row, then the next row
DrainCollect(e) ==
    /\ eng[e].pc = "ret"
    /\ eng[e].ctx = "drain"
    /\ LET r == eng[e]
           k == r.drows[r.idx].key
       IN  /\ dlq' = IF ~IsNone(r.result) THEN DlqDelete(dlq, k) ELSE dlq
           /\ IF r.idx < Len(r.drows)
              THEN /\ \E tf \in MayFail("tables") :
                        eng' = [eng EXCEPT ![e] =
                                  BeginEmbed([r EXCEPT !.idx = r.idx + 1],
                                             r.drows[r.idx + 1].text, "drain", tf)]
                   /\ obs' = [obs EXCEPT ![e] = BeginObs(obs[e], r)]
              ELSE /\ eng' = [eng EXCEPT ![e] = [r EXCEPT !.pc = "measure", !.drows = <<>>,
                                                         !.idx = 0]]
                   /\ UNCHANGED obs
    /\ UNCHANGED <<now, cache, mvm, qdrant, queue>>
    /\ UnchangedEnv

\* run_instant_mode / run_bulk_mode after the drain: an empty queue ends the run
Measure(e) ==
    /\ eng[e].pc = "measure"
    /\ eng' = [eng EXCEPT ![e] =
                 IF QueueSize(queue) = 0 THEN RunOver(eng[e])
                 ELSE [eng[e] EXCEPT !.pc = "loop", !.total = 0, !.batch_num = 0]]
    /\ UNCHANGED <<now, obs>>
    /\ UnchangedStores
    /\ UnchangedEnv

\* the loop condition of the mode
LoopGoesOn(r, q) ==
    IF r.mode = "instant" THEN QueueSize(q) > 0 ELSE r.batch_num < r.max_batches

\* the head of the loop and vectorize_batch lines 556-595: read the batch and
\* call generate_embedding for its first row
BatchFetch(e) ==
    /\ eng[e].pc = "loop"
    /\ LET r == eng[e]
           rows == FetchUnprocessed(queue, batchSize)
       IN  IF ~LoopGoesOn(r, queue) \/ rows = <<>>
           THEN /\ eng' = [eng EXCEPT ![e] = RunOver(r)]
                /\ UNCHANGED obs
           ELSE /\ \E tf \in MayFail("tables") :
                     eng' = [eng EXCEPT ![e] =
                               BeginEmbed([r EXCEPT !.rows = rows, !.idx = 1,
                                                    !.vectors = <<>>,
                                                    !.rowids_success = <<>>,
                                                    !.failed = <<>>],
                                          queue[rows[1]].text, "batch", tf)]
                /\ obs' = [obs EXCEPT ![e] =
                             BeginObs([obs[e] EXCEPT !.got = <<>>, !.dlq0 = dlq,
                                                     !.mvm0 = mvm, !.qdrant0 = qdrant,
                                                     !.failed = {}], r)]
    /\ UNCHANGED now
    /\ UnchangedStores
    /\ UnchangedEnv

\* vectorize_batch lines 595-614: classify the answer for one row, then the next row
BatchCollect(e) ==
    /\ eng[e].pc = "ret"
    /\ eng[e].ctx = "batch"
    /\ LET r == eng[e]
           rowid == r.rows[r.idx]
           r1 == IF IsNone(r.result)
                 THEN [r EXCEPT !.failed = Append(@, rowid)]
                 ELSE [r EXCEPT !.vectors =
                                  Append(@, [rowid |-> rowid, vector |-> r.result.vec]),
                                !.rowids_success = Append(@, rowid)]
           o1 == [obs[e] EXCEPT !.got = Append(@, r.result)]
       IN  IF r.idx < Len(r.rows)
           THEN /\ \E tf \in MayFail("tables") :
                     eng' = [eng EXCEPT ![e] =
                               BeginEmbed([r1 EXCEPT !.idx = r.idx + 1],
                                          queue[r.rows[r.idx + 1]].text, "batch", tf)]
                /\ obs' = [obs EXCEPT ![e] = BeginObs(o1, r)]
           ELSE /\ eng' = [eng EXCEPT ![e] = [r1 EXCEPT !.pc = "write_mvm"]]
                /\ obs' = [obs EXCEPT ![e] = o1]
    /\ UNCHANGED now
    /\ UnchangedStores
    /\ UnchangedEnv

\* the work items of the records in `vectors`
RecordIds(r) == {r.vectors[i].rowid : i \in DOMAIN r.vectors}

\* the writer of `sink` was called with the records of the batch of r
SinkCalled(o, r, sink, fails) ==
    [o EXCEPT !.handed = [i \in Items |-> IF i \in RecordIds(r)
                                          THEN @[i] \cup {sink} ELSE @[i]],
              !.lost = [i \in Items |-> IF i \in RecordIds(r) /\ fails
                                        THEN @[i] \cup {sink} ELSE @[i]],
              !.failed = IF fails THEN @ \cup {sink} ELSE @]

\* a writer whose exception is not caught: it leaves vectorize_batch's try
AfterWriteRaising(sink, fails) ==
    IF fails THEN "raised" ELSE IF sink = "mvm" THEN "write_qdrant" ELSE "mark"

\* a batch that goes to the marking after its first writer
AfterWriteSkipsQdrant(sink, fails) == "mark"

\* where vectorize_batch goes on after the writer of a sink returned: the
\* writers catch what the write raises (lines 688-690, 722-724), so on to the
\* other sink and to the marking, whether the write failed or not
AfterWrite(sink, fails) == IF sink = "mvm" THEN "write_qdrant" ELSE "mark"

\* vectorize_batch lines 617-619 and _write_to_mvm
WriteMvm(e) ==
    /\ eng[e].pc = "write_mvm"
    /\ LET r == eng[e] IN
       IF r.vectors # <<>> /\ r.target \in {"mvm", "both"}
       THEN \E fails \in MayFail("mvm") :
              /\ obs' = [obs EXCEPT ![e] = SinkCalled(obs[e], r, "mvm", fails)]
              /\ IF fails
                 THEN /\ mvm' = mvm
                      /\ eng' = [eng EXCEPT ![e].pc = AfterWrite("mvm", fails)]
                 ELSE /\ mvm' = MvmInsertAll(mvm, r.vectors)
                      /\ eng' = [eng EXCEPT ![e] =
                                   [r EXCEPT !.stats = Bump(@, "mvm_writes", Len(r.vectors)),
                                             !.pc = AfterWrite("mvm", fails)]]
       ELSE /\ mvm' = mvm
            /\ eng' = [eng EXCEPT ![e].pc = "write_qdrant"]
            /\ UNCHANGED obs
    /\ UNCHANGED <<now, cache, dlq, qdrant, queue>>
    /\ UnchangedEnv

\* vectorize_batch lines 621-622 and _write_to_qdrant
WriteQdrant(e) ==
    /\ eng[e].pc = "write_qdrant"
    /\ LET r == eng[e] IN
       IF r.vectors # <<>> /\ r.target \in {"qdrant", "both"}
       THEN \E fails \in MayFail("qdrant") :
              /\ obs' = [obs EXCEPT ![e] = SinkCalled(obs[e], r, "qdrant", fails)]
              /\ IF fails
                 THEN /\ qdrant' = qdrant
                      /\ eng' = [eng EXCEPT ![e].pc = AfterWrite("qdrant", fails)]
                 ELSE /\ qdrant' = QdrantUpsertAll(qdrant, r.vectors)
                      /\ eng' = [eng EXCEPT ![e] =
                                   [r EXCEPT !.stats = Bump(@, "qdrant_writes", Len(r.vectors)),
                                             !.pc = AfterWrite("qdrant", fails)]]
       ELSE /\ qdrant' = qdrant
            /\ eng' = [eng EXCEPT ![e].pc = "mark"]
            /\ UNCHANGED obs
    /\ UNCHANGED <<now, cache, dlq, mvm, queue>>
    /\ UnchangedEnv

\* a batch that marks every row it read
ToMarkWholeBatch(r) == Range(r.rows)

\* a batch that marks its successes only when no row failed
ToMarkAllOrNothing(r) == IF r.failed = <<>> THEN Range(r.rowids_success) ELSE {}

\* the rowids of `UPDATE chat_data SET processed = 1 WHERE rowid IN (...)`
ToMark(r) == Range(r.rowids_success)

\* vectorize_batch lines 624-642 and the rest of the loop body of the mode
Mark(e) ==
    /\ eng[e].pc = "mark"
    /\ LET r == eng[e]
           count == Len(r.rowids_success)
       IN  /\ queue' = MarkProcessed(queue, ToMark(r))
           /\ IF count = 0
              THEN /\ eng' = [eng EXCEPT ![e] = RunOver([r EXCEPT !.count = 0])]
                   /\ now' = now
              ELSE /\ eng' = [eng EXCEPT ![e] =
                                [r EXCEPT !.count = count, !.total = @ + count,
                                          !.batch_num = @ + 1, !.pc = "loop"]]
                   /\ now' = IF r.mode = "bulk" THEN now + InterBatchDelay ELSE now
    /\ UNCHANGED <<obs, cache, dlq, mvm, qdrant>>
    /\ UnchangedEnv

\* the next run of main: a new process with a new engine
NewProcess(e) ==
    /\ eng[e].pc = "done"
    /\ runs < MaxRuns
    /\ runs' = runs + 1
    /\ \E arg \in Modes :
         eng' = [eng EXCEPT ![e] =
                   [Initialized(NewEngine(now, eng[e].target, minInterval))
                      EXCEPT !.pc = "boot", !.arg = arg, !.batches = eng[e].batches]]
    /\ obs' = [obs EXCEPT ![e] = [NewObs EXCEPT !.seen = obs[e].seen,
                                                !.handed = obs[e].handed,
                                                !.lost = obs[e].lost]]
    /\ UNCHANGED <<now, minInterval, batchSize, endpoint, faults>>
    /\ UnchangedMcp
    /\ UnchangedStores

ItemTexts == {<<" ">>, <<"a">>, <<"b">>}

Init ==
    /\ now = 0
    /\ minInterval = 6
    /\ batchSize \in {2, 3}
    /\ endpoint = [p \in Prompts |-> IF p = <<"b">> THEN "flaky" ELSE "ok"]
    /\ faults = {"mvm", "qdrant"}
    /\ queue \in [Items -> [text : ItemTexts, processed : {FALSE}]]
    /\ InitStores
    /\ \E target \in {"mvm", "qdrant", "both"}, arg \in Modes :
         eng = [e \in Engines |->
                  [Initialized(NewEngine(0, target, minInterval))
                     EXCEPT !.pc = "boot", !.arg = arg]]
    /\ obs = [e \in Engines |-> NewObs]
    /\ runs = 1

Next ==
    \E e \in Engines :
        \/ ChooseMode(e)
        \/ DrainStart(e)
        \/ TakeToken(e)
        \/ Gate(e)
        \/ Infer(e)
        \/ Backoff(e)
        \/ DrainCollect(e)
        \/ Measure(e)
        \/ BatchFetch(e)
        \/ BatchCollect(e)
        \/ WriteMvm(e)
        \/ WriteQdrant(e)
        \/ Mark(e)
        \/ NewProcess(e)

Spec == Init /\ [][Next]_vars

-----------------------------------------------------------------------------
(* main_async from its first line: the PROC.db check, initialize, and what *)
(* becomes of an exception that leaves generate_embedding                  *)

\* the sleeps of a warm-up whose three tries fail: 2**0 + 2**1 seconds
WarmupTime == 30

\* an initialize that goes on without the answer of the warm-up
InitializeUnchecked(target, warm, qd, db, tb) ==
    [ok |-> TRUE, target |-> target, tables |-> target \in {"mvm", "both"}]

\* VectorizerEngine.initialize for a target, when the warm-up POST was answered
\* (warm), _init_qdrant returned True (qd), MVM.db exists (db) and
\* _ensure_cache_tables did not raise (tb): the value returned, the target left
\* in self.target and whether the tables were ensured
InitializeResult(target, warm, qd, db, tb) ==
    LET failed == [ok |-> FALSE, target |-> target, tables |-> FALSE]
        t1 == IF target = "both" /\ ~qd THEN "mvm" ELSE target
    IN  IF ~warm THEN failed
        ELSE IF target = "qdrant" /\ ~qd THEN failed
        ELSE IF t1 \in {"mvm", "both"}
             THEN (IF db /\ tb THEN [ok |-> TRUE, target |-> t1, tables |-> TRUE]
                   ELSE [failed EXCEPT !.target = t1])
        ELSE [ok |-> TRUE, target |-> t1, tables |-> FALSE]

\* main_async lines 841-853: PROC.db must exist, then the engine is built and
\* initialized; either failure ends the process with exit code 1
Start(e) ==
    /\ eng[e].pc = "start"
    /\ \E pm \in MayFail("proc_missing"), wf \in MayFail("warmup"),
          qf \in MayFail("qdrant_init"), mm \in MayFail("mvm_missing"),
          tf \in MayFail("tables") :
         LET r == eng[e]
             res == InitializeResult(r.target, ~wf, ~qf, ~mm, ~tf)
         IN  /\ eng' = [eng EXCEPT ![e] =
                          IF pm THEN [r EXCEPT !.pc = "done", !.exit = 1]
                          ELSE IF res.ok
                          THEN [r EXCEPT !.pc = "boot", !.target = res.target,
                                         !.cache_initialized = res.tables]
                          ELSE [r EXCEPT !.pc = "done", !.exit = 1,
                                         !.target = res.target]]
             /\ now' = IF ~pm /\ wf THEN now + WarmupTime ELSE now
             /\ obs' = [obs EXCEPT ![e].boot =
                          [target |-> r.target, proc |-> ~pm, warm |-> ~wf, qd |-> ~qf,
                           db |-> ~mm, tb |-> ~tf]]
    /\ UnchangedStores
    /\ UnchangedEnv

\* an exception left generate_embedding: drain_dlq logs it and returns (lines
\* 537-538), vectorize_batch logs it and returns 0 (lines 644-650), which ends
\* the loop of the mode; a direct caller gets the exception
Abort(e) ==
    /\ eng[e].pc = "raised"
    /\ LET r == eng[e] IN
       eng' = [eng EXCEPT ![e] =
                 CASE r.ctx = "drain" -> [r EXCEPT !.pc = "measure", !.drows = <<>>,
                                                   !.idx = 0]
                   [] r.ctx = "batch" -> RunOver([r EXCEPT !.count = 0])
                   [] OTHER -> [r EXCEPT !.pc = "idle"]]
    /\ obs' = [obs EXCEPT ![e].raised = @ + 1]
    /\ UNCHANGED now
    /\ UnchangedStores
    /\ UnchangedEnv

\* the next run of main, with the command line of the run before (the target
\* being the one initialize left)
Rerun(e) ==
    /\ eng[e].pc = "done"
    /\ runs < MaxRuns
    /\ runs' = runs + 1
    /\ eng' = [eng EXCEPT ![e] =
                 [NewEngine(now, eng[e].target, minInterval)
                    EXCEPT !.pc = "start", !.arg = eng[e].arg,
                           !.batches = eng[e].batches]]
    /\ obs' = [obs EXCEPT ![e] = [NewObs EXCEPT !.seen = obs[e].seen,
                                                !.handed = obs[e].handed,
                                                !.lost = obs[e].lost]]
    /\ UNCHANGED <<now, minInterval, batchSize, endpoint, faults>>
    /\ UnchangedMcp
    /\ UnchangedStores

\* what may be missing or failing in a run
BootFaults ==
    {{}, {"proc_missing"}, {"warmup"}, {"qdrant_init"}, {"mvm_missing"}, {"tables"},
     {"cache_read", "cache_write"}}

InitBoot ==
    /\ now = 0
    /\ minInterval = 2
    /\ batchSize = 2
    /\ endpoint = [p \in Prompts |-> IF p = <<"b">> THEN "any" ELSE "ok"]
    /\ faults \in BootFaults
    /\ \E done \in SUBSET Items :
         queue = [i \in Items |->
                    [text |-> CASE i = 1 -> <<"b">> [] i = 2 -> <<"a">>
                                [] OTHER -> <<" ">>,
                     processed |-> i \in done]]
    /\ InitStores
    /\ \E target \in {"mvm", "qdrant", "both"}, arg \in Modes :
         eng = [e \in Engines |->
                  [NewEngine(0, target, minInterval)
                     EXCEPT !.pc = "start", !.arg = arg]]
    /\ obs = [e \in Engines |-> NewObs]
    /\ runs = 1

NextBoot ==
    \E e \in Engines :
        \/ Start(e)
        \/ ChooseMode(e)
        \/ DrainStart(e)
        \/ TakeToken(e)
        \/ Gate(e)
        \/ Infer(e)
        \/ Backoff(e)
        \/ DrainCollect(e)
        \/ Measure(e)
        \/ BatchFetch(e)
        \/ BatchCollect(e)
        \/ WriteMvm(e)
        \/ WriteQdrant(e)
        \/ Mark(e)
        \/ Abort(e)
        \/ Rerun(e)

SpecBoot == InitBoot /\ [][NextBoot]_vars

-----------------------------------------------------------------------------
(* Two processes at once on the same PROC.db, MVM.db and Qdrant.  Every     *)
(* SQLite statement is one transaction of its own connection, so a step of *)
(* one engine is atomic and the steps of the two interleave in any order;  *)
(* a sleep of one engine moves the clock for both                          *)

TwoEngines == {1, 2}

InitTwo ==
    /\ now = 0
    /\ minInterval = 2
    /\ batchSize = 2
    /\ endpoint = [p \in Prompts |-> IF p = <<"b">> THEN "flaky" ELSE "ok"]
    /\ faults = {}
    /\ queue = [i \in Items |->
                  [text |-> IF i = 1 THEN <<"b">> ELSE <<"a">>, processed |-> i > 1]]
    /\ InitStores
    /\ eng = [e \in TwoEngines |->
                [Initialized(NewEngine(0, "mvm", minInterval))
                   EXCEPT !.pc = "boot", !.arg = "instant"]]
    /\ obs = [e \in TwoEngines |-> NewObs]
    /\ runs = 2

NextTwo ==
    \E e \in TwoEngines :
        \/ ChooseMode(e)
        \/ DrainStart(e)
        \/ TakeToken(e)
        \/ Gate(e)
        \/ Infer(e)
        \/ Backoff(e)
        \/ DrainCollect(e)
        \/ Measure(e)
        \/ BatchFetch(e)
        \/ BatchCollect(e)
        \/ WriteMvm(e)
        \/ WriteQdrant(e)
        \/ Mark(e)

SpecTwo == InitTwo /\ [][NextTwo]_vars

-----------------------------------------------------------------------------
(* Properties of generate_embedding, checked under SpecEmbed *)

\* the step of engine e is the return of a generate_embedding call
Returns(e) == eng[e].pc # "ret" /\ eng'[e].pc = "ret"

\* C4: once generate_embedding has returned a vector v for a normalized text, a
\* later call with the same normalized text returns v from the cache: the step
\* that returns issues no inference call and adds one to cache_hits
C4_Idempotence ==
    [][\A e \in Engines :
         Returns(e) =>
           \A p \in obs[e].seen :
             p[1] = eng'[e].prompt =>
               /\ eng'[e].result = ListResult(p[2])
               /\ obs'[e].calls = obs[e].calls
               /\ obs'[e].tries = 0
               /\ eng'[e].stats["cache_hits"] = eng[e].stats["cache_hits"] + 1]_vars

C4_Witness ==
    \E e \in Engines :
        /\ Returned(eng[e])
        /\ obs[e].tries = 0
        /\ obs[e].ncalls >= 2
        /\ eng[e].raw = <<" ", "a", " ">>
        /\ eng[e].stats["cache_hits"] = 1
        /\ obs[e].calls >= 1

\* C5: embed_dlq holds at most one row per key, and a permanent failure for a
\* key inserts the row with attempts = 1, or adds exactly 1 to the attempts of
\* the row there is and overwrites its last_error and last_attempt_at
DlqOnePerKey == \A x, y \in dlq : x.key = y.key => x = y

C5_Failure(e) ==
    (Returns(e) /\ IsNone(eng'[e].result)) =>
        LET k == eng[e].key
            old == DlqLookup(dlq, k)
            new == DlqLookup(dlq', k)
        IN  /\ Cardinality(new) = 1
            /\ \A n \in new :
                 /\ n.last_error = obs'[e].lastErr
                 /\ n.last_attempt_at = now'
                 /\ IF old = {} THEN n.attempts = 1
                    ELSE \A o \in old : n.attempts = o.attempts + 1
            /\ {x \in dlq' : x.key # k} = {x \in dlq : x.key # k}

\* C5: embed_dlq holds at most one row per key in every state, and every
\* permanent failure of generate_embedding upserts the row of its key
C5_DlqUpsert == [](DlqOnePerKey) /\ [][\A e \in Engines : C5_Failure(e)]_vars

C5_Witness ==
    \E e \in Engines :
        /\ obs[e].ncalls = 2
        /\ eng[e].pc = "ret"
        /\ IsNone(eng[e].result)
        /\ obs[e].calls = 2 * Attempts
        /\ \E x \in dlq : x.key = eng[e].key /\ x.attempts = 2
        /\ Cardinality(dlq) = 1

\* the calls of engine e so far are over
CallsOver(e) == eng[e].pc \in {"ret", "idle"} /\ obs[e].ncalls >= 1

Elapsed(e) == now - obs[e].firstStart

\* C6 as stated: n consecutive calls without a cache hit on a fresh engine take
\* at least (n - 1) * min_interval from the start of the first to the end of the last
C6_Original ==
    \A e \in Engines :
        (CallsOver(e) /\ eng[e].stats["cache_hits"] = 0) =>
            Elapsed(e) >= (obs[e].ncalls - 1) * minInterval

\* C6 amended: the bucket starts with bucket_size = 2 tokens, so n consecutive
\* calls take at least (n - 2) * min_interval
C6_Amended ==
    \A e \in Engines :
        (CallsOver(e) /\ eng[e].stats["cache_hits"] = 0) =>
            Elapsed(e) >= (obs[e].ncalls - BucketSize) * minInterval

C6_Witness ==
    \E e \in Engines :
        /\ CallsOver(e)
        /\ eng[e].stats["cache_hits"] = 0
        /\ obs[e].ncalls >= 4
        /\ obs[e].calls >= 2
        /\ Elapsed(e) = (obs[e].ncalls - BucketSize) * minInterval

\* C7: a call that begins with cb_failures >= failure_threshold issues no
\* inference call before pause_duration_s have passed since it began, and a
\* call returns None only after all its tries (the breaker never rejects)
C7_Backpressure ==
    [][\A e \in Engines :
         /\ (obs'[e].calls = obs[e].calls + 1 /\ CbOpen(obs[e].cbStart)) =>
                now >= obs[e].callStart + CbPauseS
         /\ (Returns(e) /\ IsNone(eng'[e].result)) => obs'[e].tries = Attempts]_vars

C7_Witness ==
    \E e \in Engines :
        /\ CbOpen(obs[e].cbStart)
        /\ obs[e].tries >= 1
        /\ obs[e].slept >= CbPauseS
        /\ now >= obs[e].callStart + CbPauseS

\* the last outcomes are: threshold - 1 failed tries counted from 0, one
\* success, one failed try
ResetScenario(h) ==
    /\ Len(h) = CbThreshold + 1
    /\ \A i \in 1..(CbThreshold - 1) : ~h[i].ok /\ h[i].cb = i
    /\ h[CbThreshold].ok
    /\ ~h[CbThreshold + 1].ok

\* C8: a successful inference call leaves cb_failures = 0, with no cooldown;
\* after threshold - 1 failed tries, a success and one more failed try,
\* cb_failures is 1 and the trip count is what it was throughout
C8_ResetOnSuccess ==
    \A e \in Engines :
        LET h == obs[e].recent
            n == Len(h)
        IN  /\ (n >= 1 /\ h[n].ok) =>
                 /\ eng[e].cb_failures = 0
                 /\ eng[e].stats["circuit_trips"] = h[n].trips
            /\ ResetScenario(h) =>
                 /\ eng[e].cb_failures = 1
                 /\ \A i \in 1..n : h[i].trips = eng[e].stats["circuit_trips"]
                 /\ obs[e].slept = 0

C8_Witness ==
    \E e \in Engines : ResetScenario(obs[e].recent) /\ eng[e].cb_failures = 1

-----------------------------------------------------------------------------
(* Properties of the batches and runs, checked under Spec *)

\* --target: the sinks a run writes to
Selected(target) == IF target = "both" THEN Sinks ELSE {target}

InSink(i, sink) ==
    IF sink = "mvm" THEN \E x \in mvm : x.bubble_id = i
    ELSE \E x \in qdrant : x.id = i

RowText(i) == NormText(queue[i].text, MaxChars)

GotVector(result) == result.kind = "list" /\ result.vec # <<>>

\* the last batch of engine e is over: its rows, answers and count are the
\* engine's rows, got and count
AfterBatch(e) ==
    /\ eng[e].pc \in {"loop", "done"}
    /\ eng[e].rows # <<>>
    /\ Len(obs[e].got) = Len(eng[e].rows)

FailedWithKeyOf(e, j) ==
    {n \in DOMAIN eng[e].rows :
        /\ HashKey(queue[eng[e].rows[n]].text) = HashKey(queue[eng[e].rows[j]].text)
        /\ IsNone(obs[e].got[n])}

\* C2 as stated: a row with a non-empty normalized text is marked iff
\* generate_embedding returned a vector for it, and a row that failed for good
\* is unprocessed and, the batch having begun with an empty embed_dlq, has one
\* row there with attempts = 1
C2_Original ==
    \A e \in Engines :
        AfterBatch(e) =>
            \A j \in DOMAIN eng[e].rows :
                LET i == eng[e].rows[j] IN
                /\ RowText(i) # <<>> => (queue[i].processed <=> GotVector(obs[e].got[j]))
                /\ (IsNone(obs[e].got[j]) /\ obs[e].dlq0 = {}) =>
                     /\ ~queue[i].processed
                     /\ Cardinality(DlqLookup(dlq, HashKey(queue[i].text))) = 1
                     /\ \A x \in DlqLookup(dlq, HashKey(queue[i].text)) : x.attempts = 1

\* C2 amended: the attempts of that row is the number of rows of the batch
\* with the same key that failed for good (1 when no other row has its text)
C2_Amended ==
    \A e \in Engines :
        AfterBatch(e) =>
            \A j \in DOMAIN eng[e].rows :
                LET i == eng[e].rows[j] IN
                /\ RowText(i) # <<>> => (queue[i].processed <=> GotVector(obs[e].got[j]))
                /\ (IsNone(obs[e].got[j]) /\ obs[e].dlq0 = {}) =>
                     /\ ~queue[i].processed
                     /\ Cardinality(DlqLookup(dlq, HashKey(queue[i].text))) = 1
                     /\ \A x \in DlqLookup(dlq, HashKey(queue[i].text)) :
                          x.attempts = Cardinality(FailedWithKeyOf(e, j))

C2_Witness ==
    \E e \in Engines :
        /\ AfterBatch(e)
        /\ Len(eng[e].rows) = 3
        /\ obs[e].dlq0 = {}
        /\ GotVector(obs[e].got[1])
        /\ IsNone(obs[e].got[2])
        /\ IsNone(obs[e].got[3])
        /\ queue[eng[e].rows[1]].processed
        /\ ~queue[eng[e].rows[2]].processed
        /\ \E x \in dlq : x.attempts = 2

\* C3: a row whose text normalizes to empty is not in the records handed to the
\* sink writers and is not marked; every record carries a non-empty vector
C3_EmptyIsFailure ==
    \A e \in Engines :
        /\ \A j \in DOMAIN eng[e].vectors :
             /\ eng[e].vectors[j].vector # <<>>
             /\ RowText(eng[e].vectors[j].rowid) # <<>>
        /\ \A i \in Items : RowText(i) = <<>> => ~queue[i].processed

\* the rows of the last batch that are processed
MarkedRows(e) == {i \in Range(eng[e].rows) : queue[i].processed}

\* the records the last batch added to a sink
NewRecords(e, sink) ==
    IF sink = "mvm" THEN Cardinality(mvm \ obs[e].mvm0)
    ELSE Cardinality(qdrant \ obs[e].qdrant0)

EndToEnd(e) ==
    /\ Len(eng[e].rows) = 3
    /\ GotVector(obs[e].got[1])
    /\ IsNone(obs[e].got[2])
    /\ GotVector(obs[e].got[3])
    /\ obs[e].dlq0 = {}
    /\ eng[e].target = "both"
    /\ obs[e].failed = {}

C10_InstantProcessesAll ==
    \A e \in Engines :
        (eng[e].pc = "done" /\ eng[e].mode = "instant") =>
            \A i \in Items :
                (RowText(i) # <<>> /\ endpoint[RowText(i)] = "ok") => queue[i].processed

-----------------------------------------------------------------------------
(* Properties of the errors of a run, checked under SpecBoot *)

\* the answer of a generate_embedding call of r is one of the three: empty (the
\* text normalized to nothing), a vector, or None
OneOfThree(r) ==
    \/ r.result.kind = "none"
    \/ r.result.kind = "list" /\ r.result.vec = <<>> /\ r.prompt = <<>>
    \/ r.result.kind = "list" /\ r.result.vec # <<>> /\ r.prompt # <<>>

\* C11: with the cache tables there, no outcome of the inference call makes
\* generate_embedding raise: every call returns empty, a vector or None, and
\* a batch classifies every row it read whatever the answers of the others
C11_NeverRaises ==
    \A e \in Engines :
        "tables" \notin faults =>
            /\ eng[e].pc # "raised"
            /\ obs[e].raised = 0
            /\ eng[e].pc = "ret" => OneOfThree(eng[e])
            /\ eng[e].pc \in {"write_mvm", "write_qdrant", "mark"} =>
                 /\ Len(obs[e].got) = Len(eng[e].rows)
                 /\ Len(eng[e].vectors) + Len(eng[e].failed) = Len(eng[e].rows)
                 /\ \A j \in DOMAIN eng[e].rows :
                      IsNone(obs[e].got[j]) <=>
                          \E n \in DOMAIN eng[e].failed :
                              eng[e].failed[n] = eng[e].rows[j]

C11_Witness ==
    \E e \in Engines :
        /\ "tables" \notin faults
        /\ eng[e].pc = "mark"
        /\ Len(eng[e].rows) = 2
        /\ IsNone(obs[e].got[1])
        /\ GotVector(obs[e].got[2])
        /\ obs[e].lastErr = "json_decode_error"
        /\ eng[e].rowids_success = <<eng[e].rows[2]>>

\* C12: a failure of the cache store never aborts a request: no call of
\* generate_embedding ends with an exception, whatever the store does
C12_CacheNeverAborts ==
    \A e \in Engines : eng[e].pc # "raised" /\ obs[e].raised = 0

-----------------------------------------------------------------------------
(* Further properties of the batches and runs, checked under Spec *)

\* C13: with both sinks selected, a batch in which the write to a sink raised
\* has still called the writer of the other sink with the same records, the
\* records are in each sink whose write did not raise, and every row that got
\* a vector is marked
C13_SinkIndependence ==
    \A e \in Engines :
        (eng[e].target = "both" /\ eng[e].vectors # <<>> /\ obs[e].failed # {}) =>
            /\ eng[e].pc \notin {"write_mvm", "write_qdrant"} =>
                 \A i \in RecordIds(eng[e]) :
                     /\ obs[e].handed[i] = Sinks
                     /\ \A sink \in Sinks \ obs[e].failed : InSink(i, sink)
            /\ eng[e].pc \notin {"write_mvm", "write_qdrant", "mark"} =>
                 \A i \in Range(eng[e].rowids_success) : queue[i].processed

C13_Witness ==
    \E e \in Engines : \E i \in Items :
        /\ eng[e].target = "both"
        /\ eng[e].pc = "loop"
        /\ obs[e].failed = {"qdrant"}
        /\ i \in RecordIds(eng[e])
        /\ InSink(i, "mvm")
        /\ ~InSink(i, "qdrant")
        /\ queue[i].processed

\* the keys that have a row in a dead letter table
DlqKeys(d) == {x.key : x \in d}

\* engine e holds the answer of a drain retry, and it is not None
DrainSucceeded(e) ==
    eng[e].pc = "ret" /\ eng[e].ctx = "drain" /\ ~IsNone(eng[e].result)

\* C14 as stated: after a batch, no row of the batch that got a vector has a
\* row for its key in embed_dlq
C14_Original ==
    \A e \in Engines :
        AfterBatch(e) =>
            \A j \in DOMAIN eng[e].rows :
                GotVector(obs[e].got[j]) =>
                    DlqLookup(dlq, HashKey(queue[eng[e].rows[j]].text)) = {}

\* C14 amended: the row of a key leaves embed_dlq only by the step of drain_dlq
\* that follows a retry of that row which did not return None, that step
\* always removes it, and the step of a batch that takes an answer, vector or
\* not, leaves embed_dlq as it is
C14_Amended ==
    [][\A e \in Engines :
         /\ \A k \in DlqKeys(dlq) \ DlqKeys(dlq') :
              DrainSucceeded(e) /\ eng[e].drows[eng[e].idx].key = k
         /\ (DrainSucceeded(e) /\ eng'[e] # eng[e]) =>
              eng[e].drows[eng[e].idx].key \notin DlqKeys(dlq')
         /\ (eng[e].pc = "ret" /\ eng[e].ctx = "batch") => dlq' = dlq]_vars

\* a run is over, every work item with the text of a dead letter row is
\* processed, and the row is still there
C14_Witness ==
    \E e \in Engines : \E x \in dlq :
        /\ eng[e].pc = "done"
        /\ \E i \in Items : HashKey(queue[i].text) = x.key
        /\ \A i \in Items : HashKey(queue[i].text) = x.key => queue[i].processed

-----------------------------------------------------------------------------
(* Further properties of a run, checked under SpecBoot *)

\* C15: once the queue is measured and is not empty, the mode of the run is
\* the explicit one when there is one, and else instant exactly when the
\* measured depth is below the threshold and bulk from the threshold on
C15_ModeSelection ==
    \A e \in Engines :
        obs[e].depth > 0 =>
            /\ eng[e].arg \in {"instant", "bulk"} => eng[e].mode = eng[e].arg
            /\ eng[e].arg = "auto" =>
                 /\ eng[e].mode \in {"instant", "bulk"}
                 /\ eng[e].mode = "instant" <=> obs[e].depth < AutoThreshold

\* no explicit mode, a depth of exactly the threshold: bulk
C15_Witness ==
    \E e \in Engines :
        /\ eng[e].arg = "auto"
        /\ obs[e].depth = AutoThreshold
        /\ eng[e].mode = "bulk"
        /\ eng[e].pc = "loop"

\* what the process of e found at its start is an initialization failure:
\* PROC.db missing, the warm-up unanswered, Qdrant down when it is the only
\* target, or MVM.db missing or unusable when it is a target
InitFailure(b) ==
    \/ ~b.proc
    \/ ~b.warm
    \/ b.target = "qdrant" /\ ~b.qd
    \/ b.target \in {"mvm", "both"} /\ (~b.db \/ ~b.tb)

\* C16: a process that is over has exit code 1 exactly when its initialization
\* failed and 0 otherwise, the run with nothing to do included; a process whose
\* initialization failed is over at once: it has measured no queue, called
\* generate_embedding and the endpoint not once, read no batch, and in a first
\* run the cache, embed_dlq and both sinks are empty
C16_ExitCodes ==
    \A e \in Engines :
        eng[e].pc # "start" =>
            /\ InitFailure(obs[e].boot) => eng[e].pc = "done" /\ eng[e].exit = 1
            /\ (eng[e].pc = "done" /\ ~InitFailure(obs[e].boot)) => eng[e].exit = 0
            /\ eng[e].pc # "done" => eng[e].exit = -1
            /\ (eng[e].pc = "done" /\ eng[e].exit = 1) =>
                 /\ obs[e].depth = -1
                 /\ obs[e].ncalls = 0
                 /\ obs[e].calls = 0
                 /\ eng[e].rows = <<>>
                 /\ eng[e].mode = "none"
                 /\ runs = 1 => cache = {} /\ dlq = {} /\ mvm = {} /\ qdrant = {}

\* the warm-up was not answered: exit code 1 after its sleeps, nothing done
C16_Witness ==
    \E e \in Engines :
        /\ eng[e].pc = "done"
        /\ eng[e].exit = 1
        /\ ~obs[e].boot.warm
        /\ obs[e].boot.proc
        /\ now = WarmupTime
        /\ QueueSize(queue) > 0


\* the step is engine e's inference call for key k answering with a usable
\* vector: the call returns vec
InferSucceeded(e, k, vec) ==
    /\ eng[e].pc = "try"
    /\ eng[e].key = k
    /\ Returned(eng'[e])
    /\ eng'[e].result = ListResult(vec)

CacheOnePerKey == \A x, y \in cache : x.key = y.key => x = y

\* C17: the cache holds at most one entry per key in every reachable state; no
\* step of embed, drain, batch or run removes an entry or changes its vector,
\* model or dims; and a step adds an entry for a key only when it is a
\* successful inference call for that key, the entry holding the vector that
\* call returns, the configured model and the vector's length
C17_CacheImmutable ==
    /\ [](CacheOnePerKey)
    /\ [][/\ \A x \in cache : x \in cache'
          /\ \A x \in cache' \ cache :
               /\ \E e \in DOMAIN eng : InferSucceeded(e, x.key, x.vector)
               /\ x.vector # <<>>
               /\ x.model = Model
               /\ x.dims = Len(x.vector)]_vars

\* one engine's inference call for a cached key came back with another vector
\* than the cached one, and the cache still holds the first
C17_Witness ==
    \E e \in DOMAIN eng :
        /\ Returned(eng[e])
        /\ obs[e].tries >= 1
        /\ \E x \in cache : x.key = eng[e].key /\ x.vector # eng[e].result.vec


\* what a successful inference call of engine e leaves in the cache: its own
\* vector when the key had no entry, the entry there was otherwise
FirstWriterWins(e) ==
    \A vec \in Vectors :
        InferSucceeded(e, eng[e].key, vec) =>
            LET k == eng[e].key
                old == CacheLookup(cache, k)
            IN  CacheLookup(cache', k) =
                    IF old = {}
                    THEN {[key |-> k, vector |-> vec, model |-> Model,
                           dims |-> Len(vec)]}
                    ELSE old

\* a step that records no permanent failure leaves every DLQ row as it is, or
\* deletes it
DlqKeptOrDeleted(e) ==
    ~(Returns(e) /\ IsNone(eng'[e].result)) =>
        \A x \in dlq : x \in dlq' \/ x.key \notin DlqKeys(dlq')

\* C18: with two engines running embed, drain and batches on the same stores,
\* in every interleaving the cache holds at most one entry per key and the
\* entry is the one of the first successful writer; embed_dlq holds at most one
\* row per key; every permanent failure recorded by either engine adds exactly
\* 1 to the attempts of the key's row (or creates it with 1), and no other
\* step changes a row's attempts
C18_ConcurrentWriters ==
    /\ [](CacheOnePerKey /\ DlqOnePerKey)
    /\ [][\A e \in TwoEngines :
            /\ FirstWriterWins(e)
            /\ C5_Failure(e)
            /\ (eng'[e] # eng[e] => DlqKeptOrDeleted(e))]_vars

\* both engines started a call for the same key at the same time, both calls
\* failed for good, and the key's row counts the two failures
C18_Witness ==
    /\ \A e \in TwoEngines :
         /\ eng[e].pc = "ret"
         /\ IsNone(eng[e].result)
         /\ obs[e].tries = Attempts
         /\ obs[e].callStart = obs[1].callStart
         /\ eng[e].key = eng[1].key
    /\ \E x \in dlq : x.key = eng[1].key /\ x.attempts = 2
    /\ Cardinality(dlq) = 1


-----------------------------------------------------------------------------
(* The work queue over the runs, checked under Spec *)

ProcessedItems(q) == {i \in DOMAIN q : q[i].processed}

\* C19: no step of any run deletes or adds a work item or changes its text, no
\* step sets processed back to false, and the only step that changes a work
\* item is the batch's UPDATE, which flips processed from false to true: the
\* set of processed items only grows
C19_QueueFrame ==
    [][/\ DOMAIN queue' = DOMAIN queue
       /\ \A i \in DOMAIN queue :
            /\ queue'[i].text = queue[i].text
            /\ queue[i].processed => queue'[i].processed
            /\ queue'[i] # queue[i] =>
                 /\ \E e \in DOMAIN eng : eng[e].pc = "mark" /\ i \in ToMark(eng[e])
                 /\ ~queue[i].processed
                 /\ queue'[i] = [queue[i] EXCEPT !.processed = TRUE]
       /\ ProcessedItems(queue) \subseteq ProcessedItems(queue')]_vars

\* the second run has marked rows, rows marked by the run before are still
\* marked, and a row is still waiting
C19_Witness ==
    \E e \in Engines :
        /\ runs = MaxRuns
        /\ eng[e].total >= 1
        /\ Cardinality(ProcessedItems(queue)) > eng[e].total
        /\ \E j \in Items : ~queue[j].processed


-----------------------------------------------------------------------------
(* _norm_text and _hash_key over every text of at most MaxTextLen characters: *)
(* one call of generate_embedding per behaviour, any text as its argument     *)

AllTexts == UNION {[1..n -> Chars] : n \in 0..MaxTextLen}

AllPrompts == {NormText(t, MaxChars) : t \in AllTexts} \ {<<>>}

InitNorm ==
    /\ now = 0
    /\ minInterval = 2
    /\ batchSize = 2
    /\ endpoint = [p \in AllPrompts |-> "ok"]
    /\ faults = {}
    /\ queue = [i \in Items |-> [text |-> <<>>, processed |-> TRUE]]
    /\ InitStores
    /\ eng = [e \in Engines |-> Initialized(NewEngine(0, "mvm", minInterval))]
    /\ obs = [e \in Engines |-> NewObs]
    /\ runs = 1

CallText(e) ==
    /\ eng[e].pc = "idle"
    /\ obs[e].ncalls = 0
    /\ \E raw \in AllTexts :
         eng' = [eng EXCEPT ![e] = BeginEmbed(eng[e], raw, "direct", FALSE)]
    /\ obs' = [obs EXCEPT ![e] = BeginObs(obs[e], eng[e])]
    /\ UNCHANGED now
    /\ UnchangedStores
    /\ UnchangedEnv

NextNorm ==
    \E e \in Engines :
        \/ CallText(e)
        \/ TakeToken(e)
        \/ Gate(e)
        \/ Infer(e)

SpecNorm == InitNorm /\ [][NextNorm]_vars

\* lines 415 and 421 have run: prompt and key are those of the call's text
Normalized(r) == r.pc \in {"gate", "try", "ret"}

\* C20: the hash depends only on the normalized text (texts with one normal
\* form have one hash), norm_text is idempotent, the key generate_embedding
\* computes is the hash of exactly the prompt it sends to inference, and two
\* different prompts never have the same key
C20_HashOfPrompt ==
    \A e \in Engines :
        Normalized(eng[e]) =>
            LET s == eng[e].raw
                p == eng[e].prompt
            IN  /\ \A b \in AllTexts :
                     NormText(b, MaxChars) = NormText(s, MaxChars) =>
                         HashKey(b) = HashKey(s)
                /\ NormText(NormText(s, MaxChars), MaxChars) = NormText(s, MaxChars)
                /\ eng[e].key = Sha256(p)
                /\ \A b \in AllTexts :
                     HashKey(NormText(b, MaxChars)) = eng[e].key =>
                         NormText(b, MaxChars) = p

\* what holds of C20 in every call: texts with one normal form have one hash,
\* and the key is the hash of the prompt normalized once more, which is the
\* prompt without the blank a truncation left at its end
C20_KeyOfStrippedPrompt ==
    \A e \in Engines :
        Normalized(eng[e]) =>
            /\ \A b \in AllTexts :
                 NormText(b, MaxChars) = NormText(eng[e].raw, MaxChars) =>
                     HashKey(b) = HashKey(eng[e].raw)
            /\ eng[e].prompt = NormText(eng[e].raw, MaxChars)
            /\ eng[e].key = Sha256(DropTrailingBlank(eng[e].prompt))

\* a call whose text is longer than max_chars, with a blank as the last
\* character kept
C20_Truncated ==
    \E e \in Engines :
        /\ eng[e].pc = "ret"
        /\ Len(eng[e].raw) > MaxChars
        /\ Len(eng[e].prompt) = MaxChars
        /\ eng[e].prompt[MaxChars] = " "


-----------------------------------------------------------------------------
(* deterministic_ids.generate_upsert_id and mcp_client.qdrant_store *)

\* an optional argument: None, or a value
NoChat == [given |-> FALSE, val |-> <<>>]
NoTurn == [given |-> FALSE, val |-> 0]
Arg(v) == [given |-> TRUE, val |-> v]

ChatIds == {<<>>, <<"c">>, <<"c", "1">>, <<"c", "|", "1">>}
ChatArgs == {NoChat} \cup {Arg(c) : c \in ChatIds}
TurnArgs == {NoTurn} \cup {Arg(t) : t \in 0..MaxTurn}

\* str(n) of a natural number
DigitChar(d) == <<"0", "1", "2", "3", "4", "5", "6", "7", "8", "9">>[d + 1]

RECURSIVE Decimal(_)
Decimal(n) == IF n < 10 THEN <<DigitChar(n)>> ELSE Decimal(n \div 10) \o <<DigitChar(n % 10)>>

\* f"{chat_id}|{turn_id}"
UpsertName(chat_id, turn_id) == chat_id \o <<"|">> \o Decimal(turn_id)

IdCharCode(c) ==
    CASE c = "c" -> 11 [] c = "|" -> 12
      [] OTHER -> 1 + (CHOOSE d \in 0..9 : DigitChar(d) = c)

\* uuid.uuid5(PROJECT_NAMESPACE, name): an injective code of the name
RECURSIVE NameCode(_)
NameCode(name) ==
    IF name = <<>> THEN 0 ELSE IdCharCode(Head(name)) + 13 * NameCode(Tail(name))

GenerateUuid5(name) == [version |-> 5, code |-> NameCode(name)]

GenerateUpsertId(chat_id, turn_id) == GenerateUuid5(UpsertName(chat_id, turn_id))

\* str(uuid.uuid4()): one of the random ids
Uuid4s == {[version |-> 4, code |-> u] : u \in 1..2}

\* Python truth of an optional str / int argument
TruthyChat(a) == a.given /\ a.val # <<>>
TruthyTurn(a) == a.given /\ a.val # 0

\* `if chat_id and turn_id: point_id = generate_upsert_id(...) else uuid4()`
PointId(chat, turn, random) ==
    IF TruthyChat(chat) /\ TruthyTurn(turn)
    THEN GenerateUpsertId(chat.val, turn.val)
    ELSE random

\* client.upsert(points=[point]): the point replaces the one with its id
Upsert(points, id, text) ==
    {x \in points : x.id # id} \cup {[id |-> id, text |-> text]}

NoneId == [version |-> 0, code |-> 0]

UnchangedVectorizer ==
    UNCHANGED <<now, minInterval, batchSize, endpoint, faults, queue, cache, dlq,
                mvm, qdrant, eng, obs, runs>>

\* qdrant_store(text, metadata, chat_id, turn_id): returns the point id, or
\* None when the client is missing or the embedding or the upsert raises
QdrantStore ==
    /\ Len(stored) < MaxStores
    /\ \E text \in {<<"a">>, <<"b">>}, chat \in ChatArgs, turn \in TurnArgs,
          random \in Uuid4s, raises \in BOOLEAN :
         LET point_id == PointId(chat, turn, random) IN
         /\ collection' = IF raises THEN collection
                          ELSE Upsert(collection, point_id, text)
         /\ stored' = Append(stored,
                             [text |-> text, chat |-> chat, turn |-> turn,
                              point_id |-> point_id,
                              ret |-> IF raises THEN NoneId ELSE point_id])
    /\ UnchangedVectorizer

InitStore ==
    /\ now = 0
    /\ minInterval = 2
    /\ batchSize = 2
    /\ endpoint = [p \in Prompts |-> "ok"]
    /\ faults = {}
    /\ queue = [i \in Items |-> [text |-> <<>>, processed |-> TRUE]]
    /\ InitStores
    /\ eng = [e \in Engines |-> Initialized(NewEngine(0, "mvm", minInterval))]
    /\ obs = [e \in Engines |-> NewObs]
    /\ runs = 1

NextStore == QdrantStore

SpecStore == InitStore /\ [][NextStore]_vars

\* two calls with the same supplied chat_id and turn_id
SamePair(a, b) ==
    /\ a.chat.given /\ a.turn.given
    /\ a.chat = b.chat /\ a.turn = b.turn

\* the id of the pair supplied to call a is the id of no other pair
InjectiveAt(a) ==
    (a.chat.given /\ a.turn.given) =>
        \A c \in ChatIds, t \in 0..MaxTurn :
            (GenerateUpsertId(a.chat.val, a.turn.val) = GenerateUpsertId(c, t))
                <=> (a.chat.val = c /\ a.turn.val = t)

\* C21: the point id is a function of (chat_id, turn_id), equal pairs giving
\* equal ids and different turns or chats different ids, and two calls of
\* qdrant_store with the same supplied chat_id and turn_id, turn 0 included,
\* upsert under the same point id
C21_IdempotentIds ==
    /\ \A i \in DOMAIN stored : InjectiveAt(stored[i])
    /\ \A i, j \in DOMAIN stored :
         SamePair(stored[i], stored[j]) => stored[i].point_id = stored[j].point_id

\* what holds of C21 in every call: the id is an injective function of the
\* pair, and two calls with the same non-empty chat_id and non-zero turn_id
\* use one point id, under which the collection holds at most one point
C21_TruthyPairs ==
    /\ \A i \in DOMAIN stored : InjectiveAt(stored[i])
    /\ \A i, j \in DOMAIN stored :
         (SamePair(stored[i], stored[j]) /\ TruthyChat(stored[i].chat)
            /\ TruthyTurn(stored[i].turn)) =>
             /\ stored[i].point_id = stored[j].point_id
             /\ Cardinality({x \in collection : x.id = stored[i].point_id}) <= 1

\* turn 0 stored twice for one chat, both calls answered, two points
C21_TurnZeroTwice ==
    /\ Len(stored) = 2
    /\ SamePair(stored[1], stored[2])
    /\ stored[1].turn = Arg(0)
    /\ stored[1].chat = Arg(<<"c">>)
    /\ Cardinality(collection) = 2


-----------------------------------------------------------------------------
(* A long-lived process whose endpoint answers "a" and fails "b": enough     *)
(* calls of generate_embedding for the breaker to trip past the ceiling of  *)
(* its pause                                                               *)

BreakerTexts == {<<"a">>, <<"b">>}

InitBreaker ==
    /\ now = 0
    /\ minInterval = 2
    /\ batchSize = 2
    /\ endpoint = [p \in Prompts |-> IF p = <<"a">> THEN "ok" ELSE "down"]
    /\ faults = {}
    /\ queue = [i \in Items |-> [text |-> <<"a">>, processed |-> FALSE]]
    /\ InitStores
    /\ eng = [e \in Engines |-> Initialized(NewEngine(0, "both", minInterval))]
    /\ obs = [e \in Engines |-> NewObs]
    /\ runs = 1

CallBreaker(e) ==
    /\ eng[e].pc = "idle"
    /\ obs[e].ncalls < MaxBreakerCalls
    /\ \E raw \in BreakerTexts :
         eng' = [eng EXCEPT ![e] = BeginEmbed(eng[e], raw, "direct", FALSE)]
    /\ obs' = [obs EXCEPT ![e] = BeginObs(obs[e], eng[e])]
    /\ UNCHANGED now
    /\ UnchangedStores
    /\ UnchangedEnv

NextBreaker ==
    \E e \in Engines :
        \/ CallBreaker(e)
        \/ TakeToken(e)
        \/ Gate(e)
        \/ Infer(e)
        \/ Backoff(e)
        \/ ReturnEmbed(e)

SpecBreaker == InitBreaker /\ [][NextBreaker]_vars

Trips(r) == r.stats["circuit_trips"]

\* the step is a cooldown of engine e: the gate found the breaker open
Cooldown(e) == eng[e].pc = "gate" /\ CbOpen(eng[e].cb_failures)

\* C22: the k-th cooldown of a process lasts base_pause_seconds * min(k, 5),
\* k being the completed cooldowns plus one; when it ends consecutive_failures
\* is 0 and the trip count is one more; no other step changes the trip count:
\* it never decreases and a success does not reset it
C22_CooldownEscalation ==
    [][\A e \in Engines :
         /\ Cooldown(e) =>
              /\ now' - now = CbPauseS * Min(Trips(eng[e]) + 1, 5)
              /\ eng'[e].cb_failures = 0
              /\ Trips(eng'[e]) = Trips(eng[e]) + 1
         /\ ~Cooldown(e) => Trips(eng'[e]) = Trips(eng[e])
         /\ Trips(eng'[e]) >= Trips(eng[e])]_vars

\* the sixth cooldown is over: it lasted 5 times the base pause, after a
\* success earlier in the process
C22_Witness ==
    \E e \in Engines :
        /\ Trips(eng[e]) = 6
        /\ eng[e].pc = "try"
        /\ eng[e].cb_failures = 0
        /\ obs[e].slept = CbPauseS * 5
        /\ eng[e].stats["embeddings_generated"] >= 1


\* engine e is about to issue an inference call (the POST of a try)
Issuing(e) == eng[e].pc = "try"

\* C23 as stated: whenever an inference call is issued consecutive_failures is
\* below failure_threshold, and consecutive_failures never exceeds the
\* threshold
C23_Original ==
    \A e \in Engines :
        /\ Issuing(e) => eng[e].cb_failures < CbThreshold
        /\ eng[e].cb_failures <= CbThreshold

\* C23 amended: the threshold is evaluated once per call of generate_embedding,
\* before its first try: the first inference call of a call is issued with
\* consecutive_failures below the threshold, the n-th retry of the call with
\* less than threshold + n, and consecutive_failures never exceeds
\* failure_threshold + attempts - 1
C23_Amended ==
    \A e \in Engines :
        /\ Issuing(e) => eng[e].cb_failures < CbThreshold + eng[e].attempt
        /\ (Issuing(e) /\ eng[e].attempt = 0) => eng[e].cb_failures < CbThreshold
        /\ eng[e].cb_failures <= CbThreshold + Attempts - 1

\* a call that began one failure below the threshold has failed all its tries
C23_Witness ==
    \E e \in Engines :
        /\ eng[e].pc = "ret"
        /\ IsNone(eng[e].result)
        /\ obs[e].cbStart = CbThreshold - 1
        /\ obs[e].tries = Attempts
        /\ eng[e].cb_failures = CbThreshold + Attempts - 1


\* the step is a try of engine e that failed
FailedTry(e) == Issuing(e) /\ ~Returned(eng'[e])

Errors(r) == r.stats["embedding_errors"]

\* C24: a call issues at most `attempts` inference calls and returns at the
\* first that succeeds; it returns None only at the end of exactly `attempts`
\* failed tries, in the step of the last try, which upserts the key's DLQ row
\* once and is followed by no backoff sleep; embed_dlq is written by no other
\* step; each failed try adds exactly 1 to the error statistic and to
\* consecutive_failures
C24_RetryAccounting ==
    /\ [](\A e \in Engines : obs[e].tries <= Attempts /\ eng[e].attempt < Attempts)
    /\ [][\A e \in Engines :
            /\ Issuing(e) =>
                 /\ obs'[e].tries = obs[e].tries + 1
                 /\ obs'[e].tries = eng[e].attempt + 1
                 /\ eng'[e].pc \in {"ret", "backoff"}
            /\ (Issuing(e) /\ ~FailedTry(e)) =>
                 /\ eng'[e].pc = "ret"
                 /\ Errors(eng'[e]) = Errors(eng[e])
                 /\ dlq' = dlq
            /\ FailedTry(e) =>
                 /\ Errors(eng'[e]) = Errors(eng[e]) + 1
                 /\ eng'[e].cb_failures = eng[e].cb_failures + 1
                 /\ (eng'[e].pc = "backoff") <=> (obs'[e].tries < Attempts)
                 /\ (eng'[e].pc = "ret") => IsNone(eng'[e].result)
            /\ (Returns(e) /\ IsNone(eng'[e].result)) =>
                 /\ FailedTry(e)
                 /\ obs'[e].tries = Attempts
                 /\ now' - now \in Latencies
                 /\ Cardinality(DlqLookup(dlq', eng[e].key)) = 1
                 /\ dlq' # dlq
            /\ (eng'[e] # eng[e] /\ dlq' # dlq) => (Returns(e) /\ IsNone(eng'[e].result))
            /\ ~Issuing(e) => /\ Errors(eng'[e]) = Errors(eng[e])
                              /\ obs'[e].calls = obs[e].calls]_vars

\* the first call of a process has failed for good: `attempts` tries, as many
\* errors and consecutive failures, one DLQ row with attempts = 1
C24_Witness ==
    \E e \in Engines :
        /\ obs[e].ncalls = 1
        /\ eng[e].pc = "ret"
        /\ IsNone(eng[e].result)
        /\ obs[e].calls = Attempts
        /\ Errors(eng[e]) = Attempts
        /\ eng[e].cb_failures = Attempts
        /\ \E x \in dlq : x.key = eng[e].key /\ x.attempts = 1


\* engine e is inside a call whose text normalizes to the empty text
InEmptyCall(e) ==
    /\ eng[e].pc \notin {"idle", "ret"}
    /\ NormText(eng[e].raw, MaxChars) = <<>>

\* what every step of a call leaves alone when the call never reaches the
\* network, the breaker or the stores
NoInference(e) ==
    /\ obs'[e].calls = obs[e].calls
    /\ eng'[e].cb_failures = eng[e].cb_failures
    /\ Trips(eng'[e]) = Trips(eng[e])
    /\ cache' = cache
    /\ dlq' = dlq

\* C25: a call whose text normalizes to empty returns the empty list as its
\* first step and changes nothing but the empty-text statistic: no inference
\* call, no cache or DLQ write, no change of consecutive_failures, and no token
\* consumed or waited for
C25_EmptyFirst ==
    [][\A e \in Engines :
         InEmptyCall(e) =>
             /\ NoInference(e)
             /\ eng'[e].pc = "ret"
             /\ eng'[e].result = ListResult(<<>>)
             /\ eng'[e].stats = Bump(eng[e].stats, "empty_text", 1)
             /\ eng'[e].tokens = eng[e].tokens
             /\ eng'[e].token_last = eng[e].token_last
             /\ now' = now]_vars

\* what holds of C25: the call makes no inference call, writes neither store,
\* leaves the breaker alone and returns the empty list with empty_text + 1,
\* in the step that takes its token
C25_EmptyAfterToken ==
    [][\A e \in Engines :
         InEmptyCall(e) =>
             /\ NoInference(e)
             /\ eng'[e].pc \in {"token", "ret"}
             /\ eng'[e].pc = "ret" =>
                  /\ eng'[e].result = ListResult(<<>>)
                  /\ eng'[e].stats = Bump(eng[e].stats, "empty_text", 1)
                  /\ eng'[e].tokens =
                       Refill(eng[e].tokens, now - eng[e].token_last, minInterval)
                         - minInterval
                  /\ now' = now
             /\ eng'[e].pc = "token" =>
                  /\ now' > now
                  /\ eng'[e].stats = eng[e].stats]_vars

\* an empty text has been answered after a wait for its token
C25_EmptyWaited ==
    \E e \in Engines :
        /\ eng[e].pc = "ret"
        /\ eng[e].raw = <<" ">>
        /\ eng[e].result = ListResult(<<>>)
        /\ now > obs[e].callStart
        /\ obs[e].tries = 0


\* the step answers the call of engine e from the cache
CacheHit(e) ==
    /\ eng[e].pc = "token"
    /\ Returned(eng'[e])
    /\ eng'[e].stats["cache_hits"] = eng[e].stats["cache_hits"] + 1

\* C26: the cache is looked up before the breaker gate: a call answered from
\* the cache returns the cached vector with no cooldown sleep and no inference
\* call, also when consecutive_failures >= failure_threshold, and leaves
\* consecutive_failures and the trip count as they were
C26_CacheBeforeGate ==
    [][\A e \in Engines :
         CacheHit(e) =>
             /\ \E x \in cache : x.key = eng'[e].key /\ eng'[e].result = ListResult(x.vector)
             /\ NoInference(e)
             /\ now' = now
             /\ obs'[e].slept = 0
             /\ obs'[e].tries = 0]_vars

\* a call was answered from the cache while the breaker condition held
C26_Witness ==
    \E e \in Engines :
        /\ Returned(eng[e])
        /\ eng[e].stats["cache_hits"] >= 1
        /\ obs[e].tries = 0
        /\ obs[e].slept = 0
        /\ CbOpen(eng[e].cb_failures)


\* C27: the cache-hit return comes before the rate limiter: a call answered
\* from the cache consumes no token and is not delayed by the limiter, it
\* returns at the time it was called
C27_CacheBeforeLimiter ==
    [][\A e \in Engines :
         CacheHit(e) =>
             /\ eng'[e].tokens = eng[e].tokens
             /\ eng'[e].token_last = eng[e].token_last
             /\ now' = obs[e].callStart]_vars

\* what holds of C27: a call answered from the cache has taken exactly one
\* token, in the step that answers it, after the sleeps of the limiter if the
\* bucket was empty; it issues no inference call
C27_HitTakesToken ==
    [][\A e \in Engines :
         CacheHit(e) =>
             /\ eng'[e].tokens =
                  Refill(eng[e].tokens, now - eng[e].token_last, minInterval)
                    - minInterval
             /\ eng'[e].token_last = now
             /\ obs'[e].calls = obs[e].calls]_vars

\* a call answered from the cache later than it was called: it waited for a
\* token
C27_HitDelayed ==
    \E e \in Engines :
        /\ Returned(eng[e])
        /\ obs[e].tries = 0
        /\ eng[e].stats["cache_hits"] >= 1
        /\ eng[e].stats["embedding_errors"] = 0
        /\ now > obs[e].callStart


-----------------------------------------------------------------------------
(* The token bucket alone: calls of generate_embedding with a blank text,   *)
(* which return as soon as their token is taken, and a caller that lets time *)
(* pass between the calls                                                   *)

InitBucket ==
    /\ now = 0
    /\ minInterval \in {2, 6}
    /\ batchSize = 2
    /\ endpoint = [p \in Prompts |-> "ok"]
    /\ faults = {}
    /\ queue = [i \in Items |-> [text |-> <<>>, processed |-> TRUE]]
    /\ InitStores
    /\ eng = [e \in Engines |-> Initialized(NewEngine(0, "mvm", minInterval))]
    /\ obs = [e \in Engines |-> [taken |-> <<>>] @@ NewObs]
    /\ runs = 1

CallBlank(e) ==
    /\ eng[e].pc = "idle"
    /\ obs[e].ncalls < MaxAcquires
    /\ eng' = [eng EXCEPT ![e] = BeginEmbed(eng[e], <<" ">>, "direct", FALSE)]
    /\ obs' = [obs EXCEPT ![e] = BeginObs(obs[e], eng[e])]
    /\ UNCHANGED now
    /\ UnchangedStores
    /\ UnchangedEnv

\* the caller does something else for a while
Pause(e) ==
    /\ eng[e].pc = "idle"
    /\ \E d \in {1, 3} :
         /\ now + d <= MaxClock
         /\ now' = now + d
    /\ UNCHANGED <<eng, obs>>
    /\ UnchangedStores
    /\ UnchangedEnv

NextBucket ==
    \E e \in Engines :
        \/ CallBlank(e)
        \/ Pause(e)
        \/ TakeToken(e)
        \/ ReturnEmbed(e)

SpecBucket == InitBucket /\ [][NextBucket]_vars

\* the bucket of engine e refilled at the present time
Filled(e) == Refill(eng[e].tokens, now - eng[e].token_last, minInterval)

\* the step takes a token for engine e
Takes(e) == eng[e].pc = "token" /\ eng'[e].pc # "token"

\* C28: in every state 0 <= tokens <= capacity; a token is taken only when the
\* bucket, refilled by the elapsed time and capped at capacity, holds at least
\* one, and the bucket is left with one less; so the acquisitions of any time
\* window of length T number at most capacity + rate * T (tokens and capacity
\* are kept multiplied by min_interval: one token is minInterval)
C28_TokenBucket ==
    /\ [](\A e \in Engines :
            /\ eng[e].tokens >= 0
            /\ eng[e].tokens <= BucketSize * minInterval
            /\ \A i, j \in DOMAIN obs[e].taken :
                 i <= j =>
                   (j - i + 1) * minInterval
                       <= BucketSize * minInterval + (obs[e].taken[j] - obs[e].taken[i]))
    /\ [][\A e \in Engines :
            /\ Takes(e) =>
                 /\ Filled(e) >= minInterval
                 /\ eng'[e].tokens = Filled(e) - minInterval
                 /\ Len(obs'[e].taken) = Len(obs[e].taken) + 1
            /\ ~Takes(e) => obs'[e].taken = obs[e].taken
            /\ (eng[e].pc = "token" /\ Filled(e) >= minInterval) => Takes(e)]_vars

\* as many tokens taken as the window allows: MaxAcquires acquisitions within
\* (MaxAcquires - capacity) intervals, the bucket empty
C28_Witness ==
    \E e \in Engines :
        /\ Len(obs[e].taken) = MaxAcquires
        /\ obs[e].taken[MaxAcquires] - obs[e].taken[1]
             = (MaxAcquires - BucketSize) * minInterval
        /\ eng[e].tokens = 0


\* the event loop runs the coroutine again when its sleep is over: a call that
\* waits for a token goes on
SpecBucketFair == SpecBucket /\ \A e \in Engines : WF_vars(TakeToken(e))

\* what the bucket of engine e lacks for one token, at the present time
Deficit(e) == minInterval - Filled(e)

\* C29: a caller waiting for a token gets one; while none is available every
\* pass of the loop sleeps min(deficit / rate, 0.5 s), a positive time that
\* does not reach past the instant the missing token is refilled, and the
\* loop never checks again without having slept
C29_AcquireTerminates ==
    /\ [][\A e \in Engines :
            (eng[e].pc = "token" /\ Deficit(e) > 0) =>
                /\ eng'[e].pc = "token"
                /\ now' - now = Min(Deficit(e), SleepCap)
                /\ now' > now
                /\ now' <= now + Deficit(e)
                /\ eng'[e].tokens = Filled(e)]_vars
    /\ \A e \in Engines : (eng[e].pc = "token") ~> (eng[e].pc # "token")

\* a token obtained after a sleep of the cap and a second, shorter sleep: the
\* missing token took a whole interval, longer than the cap
C29_Witness ==
    \E e \in Engines :
        /\ eng[e].pc = "ret"
        /\ minInterval > SleepCap
        /\ now - obs[e].callStart = minInterval
        /\ Len(obs[e].taken) >= BucketSize + 1


-----------------------------------------------------------------------------
(* drain_dlq on a dead letter table left by earlier runs: rows of up to     *)
(* three keys, new, one failure below the cap and at the cap, last tried at *)
(* one of two earlier times                                                *)

DrainPrompts == {<<"a">>, <<"b">>, <<"a", "b", " ">>}

NoRow == [attempts |-> 0, at |-> 0]

RowOptions ==
    {NoRow} \cup [attempts : {1, RetryCap - 1, RetryCap}, at : {-2, -1}]

\* the row generate_embedding leaves for prompt p (lines 484-495)
DlqRow(p, o) ==
    [key |-> HashKey(p), text |-> p, last_error |-> "http_error",
     attempts |-> o.attempts, last_attempt_at |-> o.at]

DlqStates ==
    {{DlqRow(p, c[p]) : p \in {q \in DrainPrompts : c[q] # NoRow}} :
        c \in [DrainPrompts -> RowOptions]}

InitDrain ==
    /\ now = 0
    /\ minInterval = 2
    /\ batchSize = 2
    /\ endpoint = [p \in Prompts |->
                     CASE p = <<"b">> -> "down"
                       [] p = <<"a", "b">> -> "flaky"
                       [] OTHER -> "ok"]
    /\ faults = {}
    /\ queue = [i \in Items |-> [text |-> <<"a">>, processed |-> i > 1]]
    /\ cache = {}
    /\ dlq \in DlqStates
    /\ mvm = {}
    /\ qdrant = {}
    /\ collection = {}
    /\ stored = <<>>
    /\ eng = [e \in Engines |->
                [Initialized(NewEngine(0, "mvm", minInterval))
                   EXCEPT !.pc = "boot", !.arg = "instant"]]
    /\ obs = [e \in Engines |-> NewObs]
    /\ runs = 1

NextDrain ==
    \E e \in Engines :
        \/ ChooseMode(e)
        \/ DrainStart(e)
        \/ TakeToken(e)
        \/ Gate(e)
        \/ Infer(e)
        \/ Backoff(e)
        \/ DrainCollect(e)

SpecDrain == InitDrain /\ [][NextDrain]_vars

\* engine e is inside drain_dlq, after its SELECT
Draining(e) == eng[e].ctx = "drain" /\ eng[e].pc \notin {"drain", "measure"}

\* sel is what the SELECT of drain_dlq returns on table d
Selection(sel, d) ==
    /\ \A i \in DOMAIN sel : sel[i] \in d /\ sel[i].attempts < 10
    /\ Len(sel) = Min(DrainLimit, Cardinality({x \in d : x.attempts < 10}))
    /\ \A i, j \in DOMAIN sel :
         i < j => /\ sel[i].key # sel[j].key
                  /\ sel[i].last_attempt_at <= sel[j].last_attempt_at
    /\ \A x \in d :
         (x.attempts < 10 /\ x \notin Range(sel)) =>
             \A i \in DOMAIN sel : sel[i].last_attempt_at <= x.last_attempt_at

\* C30: drain_dlq selects, in one SELECT at its start, exactly the rows with
\* attempts < 10, oldest last_attempt_at first, at most `limit` of them; it
\* calls generate_embedding once for each selected row, in that order; and a
\* retry that fails again leaves the row with attempts + 1 and the time of the
\* failure as last_attempt_at
C30_DrainSelection ==
    /\ [](\A e \in Engines :
            Draining(e) =>
                /\ obs[e].ncalls = eng[e].idx
                /\ eng[e].idx \in DOMAIN eng[e].drows
                /\ eng[e].raw = eng[e].drows[eng[e].idx].text)
    /\ [][\A e \in Engines :
            /\ eng[e].pc = "drain" =>
                 Selection(IF eng'[e].pc = "measure" THEN <<>> ELSE eng'[e].drows, dlq)
            /\ (Draining(e) /\ Draining(e)') =>
                 /\ eng'[e].drows = eng[e].drows
                 /\ eng'[e].idx \in {eng[e].idx, eng[e].idx + 1}
            /\ (Draining(e) /\ ~Draining(e)') => eng[e].idx = Len(eng[e].drows)
            /\ (Draining(e) /\ Returns(e) /\ IsNone(eng'[e].result)) =>
                 LET row == eng[e].drows[eng[e].idx]
                     new == DlqLookup(dlq', row.key)
                 IN  /\ DlqLookup(dlq, row.key) = {row}
                     /\ new = {[row EXCEPT !.attempts = row.attempts + 1,
                                           !.last_attempt_at = now',
                                           !.last_error = obs'[e].lastErr]}
                     /\ now' > row.last_attempt_at]_vars

\* a drain is over in which the limit cut the selection, a row at the cap was
\* left out and is as it was, and a row one below the cap failed again and is
\* now at the cap
C30_Witness ==
    \E e \in Engines :
        /\ eng[e].pc = "measure"
        /\ obs[e].ncalls = DrainLimit
        /\ Cardinality(dlq) >= 2
        /\ \E x, y \in dlq :
             /\ x.attempts = RetryCap /\ x.last_attempt_at < 0
             /\ y.attempts = RetryCap /\ y.last_attempt_at >= 0


-----------------------------------------------------------------------------
(* Runs on a dead letter table whose rows are around the retry cap: one     *)
(* below it, at it and above it.  Work item 1 has the text of a row and its *)
(* inference fails, work item 2 is embedded; or the work queue is empty     *)

CapRows ==
    {NoRow} \cup [attempts : {RetryCap - 1, RetryCap, RetryCap + 1}, at : {-1}]

CapStates ==
    {{DlqRow(p, c[p]) : p \in {q \in DrainPrompts : c[q] # NoRow}} :
        c \in [DrainPrompts -> CapRows]}

InitCap ==
    /\ now = 0
    /\ minInterval = 2
    /\ batchSize = 2
    /\ endpoint = [p \in Prompts |->
                     CASE p = <<"b">> -> "down"
                       [] p = <<"a", "b">> -> "flaky"
                       [] OTHER -> "ok"]
    /\ faults = {}
    /\ \E todo \in {{}, {1, 2}} :
         queue = [i \in Items |->
                    [text |-> IF i = 1 THEN <<"b">> ELSE <<"a">>,
                     processed |-> i \notin todo]]
    /\ cache = {}
    /\ dlq \in CapStates
    /\ mvm = {}
    /\ qdrant = {}
    /\ collection = {}
    /\ stored = <<>>
    /\ \E arg \in Modes :
         eng = [e \in Engines |->
                  [Initialized(NewEngine(0, "mvm", minInterval))
                     EXCEPT !.pc = "boot", !.arg = arg]]
    /\ obs = [e \in Engines |-> NewObs]
    /\ runs = 1

SpecCap == InitCap /\ [][Next]_vars

\* what the SELECT of drain_dlq of engine e returned in this step
Drained(e) == IF eng'[e].pc = "measure" THEN {} ELSE Range(eng'[e].drows)

\* C31: a dead letter row is eligible for the drain as long as its attempts do
\* not exceed 10 (it is selected, unless the limit is filled by rows as old);
\* a row whose attempts exceed 10 is never selected and no step changes or
\* deletes it
C31_RetryCap ==
    [][\A e \in Engines :
         /\ eng[e].pc = "drain" =>
              /\ \A x \in dlq :
                   x.attempts <= RetryCap =>
                       x \in Drained(e) \/ Cardinality(Drained(e)) = DrainLimit
              /\ \A x \in Drained(e) : x.attempts <= RetryCap
         /\ \A x \in dlq : x.attempts > RetryCap => x \in dlq']_vars

\* the part of it about the rows above the cap alone
C31_InertAboveCap ==
    [][\A x \in dlq : x.attempts > RetryCap => x \in dlq']_vars

\* what the code keeps: the drain selects no row with attempts >= 10, and only
\* a failed generate_embedding for the text of such a row (a work item of that
\* text, or a drained row that normalises to it) changes it: attempts + 1
C31_DrainStopsAtCap ==
    [][\A e \in Engines :
         /\ eng[e].pc = "drain" => \A x \in Drained(e) : x.attempts < RetryCap
         /\ \A x \in dlq :
              x.attempts >= RetryCap =>
                  \/ x \in dlq'
                  \/ /\ eng[e].pc = "try"
                     /\ eng[e].key = x.key
                     /\ IsNone(eng'[e].result)
                     /\ DlqLookup(dlq', x.key)
                          = {[x EXCEPT !.attempts = x.attempts + 1,
                                       !.last_attempt_at = now',
                                       !.last_error = obs'[e].lastErr]}]_vars

\* a row above the cap has grown further, through the batch of a work item
C31_GrownAboveCap ==
    \E x \in dlq : x.attempts = RetryCap + 2 /\ x.last_attempt_at >= 0


\* C32: every run starts with the drain of the dead letter queue: no run ends
\* without having entered drain_dlq, the queue depth is not measured before
\* the drain's SELECT, and the drain takes at most 25 rows (DrainLimit)
C32_DrainFirst ==
    [][\A e \in Engines :
         /\ eng[e].pc = "boot" => eng'[e].pc = "drain"
         /\ eng[e].pc = "drain" =>
              /\ obs[e].depth = -1
              /\ Cardinality(Drained(e)) <= DrainLimit]_vars

\* what the code keeps: main_async measures the queue first and leaves at once
\* when it is empty; else the drain's SELECT is the next step, it takes at most
\* DrainLimit rows, and the mode measures the queue and runs its batches only
\* after the drain is over
C32_DrainAfterMeasure ==
    [][\A e \in Engines :
         /\ eng[e].pc = "boot" =>
              /\ obs'[e].depth = QueueSize(queue)
              /\ eng'[e].pc = (IF QueueSize(queue) = 0 THEN "done" ELSE "drain")
              /\ dlq' = dlq
         /\ eng[e].pc = "drain" =>
              /\ obs[e].depth > 0
              /\ Cardinality(Drained(e)) <= DrainLimit
         /\ (eng[e].pc # "measure" /\ eng'[e].pc = "measure") =>
              \/ eng[e].pc = "drain"
              \/ eng[e].ctx = "drain" /\ eng[e].idx = Len(eng[e].drows)
         /\ (eng[e].pc # "loop" /\ eng'[e].pc = "loop") => eng[e].pc \in {"measure", "mark"}
         /\ eng'[e].ctx = "batch" => eng[e].ctx = "batch" \/ eng[e].pc = "loop"]_vars

\* a run is over that found the work queue empty and made no call, with a
\* retryable row left in the dead letter table
C32_RunWithoutDrain ==
    \E e \in Engines :
        /\ eng[e].pc = "done"
        /\ eng[e].exit = 0
        /\ obs[e].depth = 0
        /\ obs[e].ncalls = 0
        /\ Retryable(dlq) # {}


-----------------------------------------------------------------------------
(* Runs of main_async in every mode and with every --batches, on a queue    *)
(* whose first item has a text the endpoint may fail for                   *)

\* the values of --batches: below the default, and the default
BatchesArgs == {1, MaxBatches}

InitRun ==
    /\ now = 0
    /\ minInterval = 2
    /\ batchSize \in {1, 2}
    /\ endpoint = [p \in Prompts |-> IF p = <<"b">> THEN "flaky" ELSE "ok"]
    /\ faults = {}
    /\ \E todo \in {{1}, {1, 2}, Items} :
         queue = [i \in Items |->
                    [text |-> IF i = 1 THEN <<"b">> ELSE <<"a">>,
                     processed |-> i \notin todo]]
    /\ InitStores
    /\ \E arg \in Modes, batches \in BatchesArgs :
         eng = [e \in Engines |->
                  [Initialized(NewEngine(0, "mvm", minInterval))
                     EXCEPT !.pc = "boot", !.arg = arg, !.batches = batches]]
    /\ obs = [e \in Engines |-> NewObs]
    /\ runs = 1

SpecRun == InitRun /\ [][Next]_vars

\* asyncio.run drives main_async until it returns: a step that can be taken is
\* taken
SpecRunFair == SpecRun /\ WF_vars(Next)

\* engine e is in run_instant_mode
InInstant(e) == eng[e].mode = "instant" /\ eng[e].pc # "done"

\* C33: instant mode terminates.  Every pass of its loop marks at least one
\* item, which lowers the number of unprocessed items by the count of the
\* batch, or ends the loop; the mode returns only with the queue empty or
\* after a batch without a success; what it returns (total) is the number of
\* items it marked; and a run in the loop of instant mode comes to its end
C33_InstantTerminates ==
    /\ [](\A e \in Engines :
            (eng[e].mode = "instant" /\ obs[e].depth >= 0) =>
                eng[e].total = obs[e].depth - QueueSize(queue))
    /\ [][\A e \in Engines :
            /\ (InInstant(e) /\ eng[e].pc = "mark") =>
                 LET count == Len(eng[e].rowids_success)
                 IN  /\ QueueSize(queue') = QueueSize(queue) - count
                     /\ eng'[e].total = eng[e].total + count
                     /\ eng'[e].pc = (IF count = 0 THEN "done" ELSE "loop")
            /\ (InInstant(e) /\ eng'[e].pc = "done") =>
                 \/ QueueSize(queue') = 0
                 \/ eng[e].pc = "mark" /\ eng[e].rowids_success = <<>>
            /\ (InInstant(e) /\ eng[e].pc # "mark") => queue' = queue]_vars
    /\ \A e \in Engines : (InInstant(e) /\ eng[e].pc = "loop") ~> (eng[e].pc = "done")

\* instant mode has returned after two passes that marked an item each and a
\* third that had no success, the queue not empty
C33_Witness ==
    \E e \in Engines :
        /\ eng[e].mode = "instant"
        /\ eng[e].pc = "done"
        /\ eng[e].batch_num = 2
        /\ eng[e].total = 2
        /\ QueueSize(queue) = 1


\* engine e is in run_bulk_mode
InBulk(e) == eng[e].mode = "bulk" /\ eng[e].pc # "done"

\* C34: a run in bulk mode, selected by --mode bulk or by the depth, executes
\* at most --batches batches and marks at most --batches * batch_size items;
\* a batch without a success ends it; a step changes no item but those the
\* batch marks, so what was not reached stays unprocessed for the next run
C34_BulkBounded ==
    /\ [](\A e \in Engines :
            eng[e].mode = "bulk" =>
                /\ eng[e].batch_num <= eng[e].batches
                /\ eng[e].total <= eng[e].batches * batchSize)
    /\ [][\A e \in Engines :
            /\ (InBulk(e) /\ eng[e].pc = "mark" /\ eng[e].rowids_success = <<>>) =>
                 eng'[e].pc = "done"
            /\ \A i \in Items :
                 queue'[i] # queue[i] =>
                     /\ eng[e].pc = "mark"
                     /\ i \in Range(eng[e].rowids_success)
                     /\ queue'[i] = [queue[i] EXCEPT !.processed = TRUE]]_vars

\* what the code keeps: the bound is the max_batches run_bulk_mode was called
\* with, which is --batches only when --mode bulk was given and 10 (MaxBatches)
\* when the depth selected the mode
C34_BoundedByParameter ==
    /\ [](\A e \in Engines :
            eng[e].mode = "bulk" =>
                /\ eng[e].max_batches = BulkBound(eng[e].arg, eng[e].batches)
                /\ eng[e].batch_num <= eng[e].max_batches
                /\ eng[e].total <= eng[e].batch_num * batchSize)
    /\ [][\A e \in Engines :
            /\ (InBulk(e) /\ eng[e].pc = "mark" /\ eng[e].rowids_success = <<>>) =>
                 eng'[e].pc = "done"
            /\ \A i \in Items :
                 queue'[i] # queue[i] =>
                     /\ eng[e].pc = "mark"
                     /\ i \in Range(eng[e].rowids_success)
                     /\ queue'[i] = [queue[i] EXCEPT !.processed = TRUE]]_vars

\* a run without --mode and with --batches 1 has executed two batches of bulk
\* mode
C34_AutoIgnoresBatches ==
    \E e \in Engines :
        /\ eng[e].arg = "auto"
        /\ eng[e].mode = "bulk"
        /\ eng[e].batches = 1
        /\ eng[e].batch_num = 2
        /\ eng[e].total = 2


\* the step passes work item i to generate_embedding, in a batch of engine e
BatchCall(e, i) ==
    /\ obs'[e].ncalls = obs[e].ncalls + 1
    /\ eng'[e].ctx = "batch"
    /\ eng'[e].rows[eng'[e].idx] = i

\* the dead letter rows for the text of work item i (in the first run, whose
\* table starts empty: the failures of i in the batches of this run)
FailedBefore(i) == DlqLookup(dlq, HashKey(queue[i].text))

\* C35: within one run an item that failed in a batch is not passed to embed
\* by a later batch, and batch processing raises the attempts of its dead
\* letter row by at most one
C35_OneBatchPerItem ==
    /\ [](runs = 1 => \A x \in dlq : x.attempts <= 1)
    /\ [][\A e \in Engines : \A i \in Items :
            (runs = 1 /\ BatchCall(e, i)) => FailedBefore(i) = {}]_vars

\* what the code keeps: an item that failed stays unprocessed and is read again
\* by every later batch of the run, so its row grows by at most one per batch
C35_OncePerBatch ==
    runs = 1 =>
        \A e \in Engines : \A x \in dlq : x.attempts <= eng[e].batch_num + 1

\* the first run is over, and the item that failed in its first batch has
\* failed again in its second and in its third
C35_FailedInEveryBatch ==
    \E e \in Engines :
        /\ runs = 1
        /\ eng[e].pc = "done"
        /\ eng[e].batch_num = 2
        /\ \E x \in dlq : x.attempts = 3


-----------------------------------------------------------------------------
(* The order of the steps of a batch, checked under Spec *)

\* generate_embedding has returned for every row of the batch of engine e
AllAnswered(e) == Len(obs[e].got) = Len(eng[e].rows)

\* work item i is a row of the batch of engine e that was answered with a list
EmbeddedInBatch(e, i) ==
    \E j \in DOMAIN eng[e].rows :
        /\ eng[e].rows[j] = i
        /\ j \in DOMAIN obs[e].got
        /\ ~IsNone(obs[e].got[j])

-----------------------------------------------------------------------------
(* Runs that may be stopped from outside.  The program installs no signal  *)
(* handler and checks no flag: SIGINT reaches main as the KeyboardInterrupt *)
(* that ends asyncio.run, at whatever await the coroutine is suspended, and *)
(* the process exits with code 130                                         *)

\* main lines 915-921: the run is cut where it stands; nothing of the step in
\* progress is written (pc = "try" is the coroutine inside the POST)
Interrupt(e) ==
    /\ eng[e].pc \notin {"done", "idle"}
    /\ eng' = [eng EXCEPT ![e].pc = "done", ![e].exit = 130]
    /\ UNCHANGED <<now, obs>>
    /\ UnchangedStores
    /\ UnchangedEnv

InitStop ==
    /\ now = 0
    /\ minInterval = 2
    /\ batchSize = 2
    /\ endpoint = [p \in Prompts |-> "flaky"]
    /\ faults = {}
    /\ queue = [i \in Items |->
                  [text |-> IF i = 1 THEN <<"b">> ELSE <<"a">>, processed |-> i > 2]]
    /\ InitStores
    /\ \E arg \in {"instant", "bulk"} :
         eng = [e \in Engines |->
                  [Initialized(NewEngine(0, "mvm", minInterval))
                     EXCEPT !.pc = "boot", !.arg = arg]]
    /\ obs = [e \in Engines |-> NewObs]
    /\ runs = 1

NextStop == Next \/ \E e \in Engines : Interrupt(e)

SpecStop == InitStop /\ [][NextStop]_vars


\* the running batch of engine e found the record of work item i in the
\* relational sink when it read its rows: i was embedded and written, and
\* not marked
FoundWritten(e, i) ==
    /\ eng[e].pc \notin {"done", "idle"}
    /\ eng[e].ctx = "batch"
    /\ i \in Range(eng[e].rows)
    /\ \E x \in obs[e].mvm0 : x.bubble_id = i

\* C37: a batch that is run again for items that were embedded and written
\* but not marked issues no inference call for them (their calls end at the
\* cache), the relational sink keeps the one row of each such item as it was
\* (a row of the sink is never changed, removed or doubled), and the marking
\* of the batch, unless the run is stopped again before it, marks them
C37_IdempotentRerun ==
    /\ [](\A x, y \in mvm : x.bubble_id = y.bubble_id => x = y)
    /\ [][\A e \in Engines :
            /\ \A x \in mvm : x \in mvm'
            /\ \A i \in Items :
                 (FoundWritten(e, i) /\ eng[e].rows[eng[e].idx] = i) =>
                     /\ eng[e].pc \notin {"gate", "try", "backoff"}
                     /\ obs'[e].calls = obs[e].calls
                     /\ (eng[e].pc = "token" /\ eng'[e].pc \notin {"token", "done"}) =>
                          /\ eng'[e].pc = "ret"
                          /\ eng'[e].result.kind = "list"
                          /\ \E x \in mvm : x.bubble_id = i /\ x.vector = eng'[e].result.vec
            /\ (eng[e].pc = "write_mvm" /\ \A i \in Range(eng[e].rows) : FoundWritten(e, i)) =>
                 mvm' = mvm
            /\ (eng[e].pc = "mark" /\ eng'[e].exit # 130) =>
                 \A i \in Items : FoundWritten(e, i) => queue'[i].processed]_vars

\* the second run is over after the first was stopped between its sink write
\* and its marking: its batch found the records of both items in the sink,
\* made no inference call, left the sink as it was and marked both items
C37_Witness ==
    \E e \in Engines :
        /\ runs = 2
        /\ eng[e].pc = "done" /\ eng[e].exit = 0
        /\ obs[e].calls = 0
        /\ eng[e].stats["cache_hits"] = 2
        /\ Cardinality(obs[e].mvm0) = 2
        /\ mvm = obs[e].mvm0
        /\ \A i \in {1, 2} : (\E x \in mvm : x.bubble_id = i) /\ queue[i].processed


-----------------------------------------------------------------------------
(* VectorizerEngine.initialize with its warm-up in full: the three tries of *)
(* the health check, each with its own answer, and _init_qdrant with a     *)
(* collection that exists or has to be created.  self.embedding_dim is the *)
(* field embedding_dim of the engine, 0 for None                          *)

\* for attempt in range(3)
WarmupAttempts == 3

\* what the warm-up POST can come back with
WarmReplies ==
    {TransportError, ErrorReply, MissingReply, OkReply(<<>>), OkReply(<<1>>),
     OkReply(<<1, 2>>)}

\* the POST, raise_for_status or r.json() of a warm-up try raises
WarmRaises(reply) == reply.status \notin {"ok", "missing"}

\* lines 195-217, from try `attempt` on: a usable vector sets the dimension and
\* leaves the loop; a try that raises sleeps 2**attempt s and goes on, or
\* returns False when it is the last; a try answered without a usable vector
\* just goes on.  ok is FALSE when initialize returned False here; calls and
\* slept are the POSTs made and the time slept
RECURSIVE Warmup(_, _)
Warmup(replies, attempt) ==
    IF attempt = WarmupAttempts THEN [ok |-> TRUE, dim |-> 0, calls |-> attempt, slept |-> 0]
    ELSE LET reply == replies[attempt + 1]
             rest == Warmup(replies, attempt + 1)
         IN  IF WarmRaises(reply)
             THEN IF attempt < WarmupAttempts - 1
                  THEN [rest EXCEPT !.slept = @ + 10 * Pow2(attempt)]
                  ELSE [ok |-> FALSE, dim |-> 0, calls |-> attempt + 1, slept |-> 0]
             ELSE IF reply.status = "ok" /\ reply.embedding # <<>>
                  THEN [ok |-> TRUE, dim |-> Len(reply.embedding),
                        calls |-> attempt + 1, slept |-> 0]
                  ELSE rest

\* _init_qdrant, lines 306-358: False when the client or get_collections
\* raises (down); True when the collection exists; else create_collection with
\* size = self.embedding_dim, which VectorParams may refuse when the size is
\* None (refuses).  created is the size of the collection it created, -1 for none
InitQdrant(dim, down, exists, refuses) ==
    IF down THEN [ok |-> FALSE, created |-> -1]
    ELSE IF exists THEN [ok |-> TRUE, created |-> -1]
    ELSE IF dim = 0 /\ refuses THEN [ok |-> FALSE, created |-> -1]
    ELSE [ok |-> TRUE, created |-> dim]

\* initialize, called by main_async line 850 on a new engine
Initialize(e) ==
    /\ eng[e].pc = "start"
    /\ \E replies \in [1..WarmupAttempts -> WarmReplies],
          down \in MayFail("qdrant_init"), exists \in BOOLEAN, refuses \in BOOLEAN,
          mm \in MayFail("mvm_missing"), tf \in MayFail("tables") :
         LET r == eng[e]
             w == Warmup(replies, 0)
             q == IF w.ok /\ r.target \in {"qdrant", "both"}
                  THEN InitQdrant(w.dim, down, exists, refuses)
                  ELSE [ok |-> TRUE, created |-> -1]
             res == InitializeResult(r.target, w.ok, q.ok, ~mm, ~tf)
         IN  /\ eng' = [eng EXCEPT ![e] =
                          [r EXCEPT !.pc = IF res.ok THEN "boot" ELSE "done",
                                    !.exit = IF res.ok THEN @ ELSE 1,
                                    !.target = res.target,
                                    !.cache_initialized = res.ok /\ res.tables,
                                    !.embedding_dim = w.dim]]
             /\ now' = now + w.slept
             /\ obs' = [obs EXCEPT ![e].warmup = SubSeq(replies, 1, w.calls),
                                   ![e].created = q.created]
    /\ UnchangedStores
    /\ UnchangedEnv

InitWarm ==
    /\ now = 0
    /\ minInterval = 2
    /\ batchSize = 2
    /\ endpoint = [p \in Prompts |-> "ok"]
    /\ faults \in {{}, {"qdrant_init"}, {"mvm_missing"}}
    /\ queue = [i \in Items |-> [text |-> <<"a">>, processed |-> FALSE]]
    /\ InitStores
    /\ \E target \in {"mvm", "qdrant", "both"} :
         eng = [e \in Engines |->
                  [embedding_dim |-> 0] @@
                  [NewEngine(0, target, minInterval) EXCEPT !.pc = "start"]]
    /\ obs = [e \in Engines |-> [warmup |-> <<>>, created |-> -1] @@ NewObs]
    /\ runs = 1

NextWarm == \E e \in Engines : Initialize(e)

SpecWarm == InitWarm /\ [][NextWarm]_vars

\* a warm-up answer with a usable vector
Usable(reply) == reply.status = "ok" /\ reply.embedding # <<>>

\* C38: initialize reports success only after a warm-up try, of at most 3,
\* returned a non-empty vector, with embedding_dim set to its length; a
\* warm-up whose every answer lacks a usable vector makes it fail; and no
\* collection is created with an unknown dimension
C38_InitNeedsWarmup ==
    \A e \in Engines :
        /\ Len(obs[e].warmup) <= WarmupAttempts
        /\ eng[e].pc = "boot" =>
             \E n \in DOMAIN obs[e].warmup :
                 /\ Usable(obs[e].warmup[n])
                 /\ eng[e].embedding_dim = Len(obs[e].warmup[n].embedding)
        /\ (obs[e].warmup # <<>> /\ \A n \in DOMAIN obs[e].warmup : ~Usable(obs[e].warmup[n])) =>
             eng[e].pc = "done" /\ eng[e].exit = 1
        /\ obs[e].created # 0

\* what the code keeps: the warm-up ends initialize only when its last try
\* raises; a usable vector ends the warm-up and sets the dimension to its
\* length; after three tries without one, the last of them answered, initialize
\* goes on with the dimension unset, and a collection is created with whatever
\* the dimension is
C38_FailsOnlyOnLastRaise ==
    \A e \in Engines :
        LET w == obs[e].warmup IN
        eng[e].pc # "start" =>
            /\ Len(w) \in 1..WarmupAttempts
            /\ \A n \in 1..(Len(w) - 1) : ~Usable(w[n])
            /\ Usable(w[Len(w)]) => eng[e].embedding_dim = Len(w[Len(w)].embedding)
            /\ ~Usable(w[Len(w)]) => Len(w) = WarmupAttempts /\ eng[e].embedding_dim = 0
            /\ WarmRaises(w[Len(w)]) => eng[e].pc = "done" /\ eng[e].exit = 1
            /\ (eng[e].pc = "done" /\ faults = {} /\ eng[e].target = "mvm") =>
                 WarmRaises(w[Len(w)])
            /\ obs[e].created \in {-1, eng[e].embedding_dim}

\* initialize reported success after three warm-up answers without a vector,
\* the dimension unset
C38_SucceededWithoutVector ==
    \E e \in Engines :
        /\ eng[e].pc = "boot"
        /\ eng[e].embedding_dim = 0
        /\ obs[e].warmup = <<MissingReply, OkReply(<<>>), MissingReply>>


\* the step is the stop of the run of engine e by a shutdown signal
Stopped(e) == eng[e].exit # 130 /\ eng'[e].exit = 130

\* engine e is inside a call of generate_embedding
InCall(e) == eng[e].pc \in {"token", "gate", "try", "backoff"}

\* C39: a shutdown signal stops the run only between two items, at the top of
\* the per-item loop: never inside a call of generate_embedding, whose
\* inference call completes and whose result is handled first
C39_CancelBetweenItems ==
    [][\A e \in Engines : Stopped(e) => ~InCall(e)]_vars

\* what the code keeps: the stop can come at any step of the run, it ends the
\* process with exit code 130 and writes nothing
C39_StopWritesNothing ==
    [][\A e \in Engines :
         Stopped(e) =>
             /\ eng'[e].pc = "done"
             /\ UNCHANGED <<cache, dlq, mvm, qdrant, queue>>]_vars

\* a run was stopped inside the call for the first row of a batch, after the
\* first try had failed and before the second: the call was not completed,
\* no answer was collected, and neither the cache nor the dead letter table
\* has a row for its key
C39_CutInsideCall ==
    \E e \in Engines :
        /\ eng[e].exit = 130
        /\ eng[e].ctx = "batch"
        /\ eng[e].idx = 1
        /\ obs[e].tries = 1
        /\ obs[e].got = <<>>
        /\ eng[e].result = NoneResult
        /\ CacheLookup(cache, eng[e].key) = {}
        /\ DlqLookup(dlq, eng[e].key) = {}

====
